---- MODULE Spec2Model ----
(***************************************************************************)
(* A model of libmetro's decoders for the Metrowerks CodeWarrior library   *)
(* and object formats: the hunk-stream decoder (code_m68k.rs), the object  *)
(* decoder (objects_m68k.rs), the symbol-table and type-table decoders     *)
(* (symtable_m68k.rs, types_m68k.rs) and the library decoder               *)
(* (mwob_library.rs).                                                      *)
(*                                                                         *)
(* Every decoder is a loop `while state != End { state = match state ... }`*)
(* over a cursor.  A decoder's frame is modelled as a record holding its   *)
(* locals; one pass through the loop is one step.  A step that indexes a   *)
(* slice out of bounds, unwraps an Err or None, or constructs a            *)
(* ReservedHunk, panics: the frame's outcome becomes "panic".  `return     *)
(* Err(..)` gives outcome "err", leaving the loop gives outcome "ok".      *)
(***************************************************************************)
EXTENDS Integers, Sequences, FiniteSets, TLC

VARIABLES
    hunkp,   \* frame of parse_code     (code_m68k.rs)
    objp,    \* frame of parse_object   (objects_m68k.rs)
    libp,    \* frame of parse_library  (mwob_library.rs)
    symp,    \* frame of parse_symtab   (symtable_m68k.rs)
    typep,   \* frame of TypeTable::try_from (types_m68k.rs)
    timep,   \* frame of the Mac-epoch round trip (util.rs)
    hashp,   \* frame of nametable_hash (util.rs)
    oncep,   \* the threads calling get_offset (util.rs)
    lookp    \* frame of a name lookup (proc_macros/mod.rs, types_m68k.rs)

vars == <<hunkp, objp, libp, symp, typep, timep, hashp, oncep, lookp>>

(***************************************************************************)
(* Bytes and big-endian readers (util.rs).                                 *)
(***************************************************************************)

\* Rust's &s[a..]: the slice without its first a bytes (a <= Len(s)).
DropBytes(s, a) == SubSeq(s, a + 1, Len(s))

\* Rust's &s[a..b] (0-based, half open; a <= b <= Len(s)).
Slice(s, a, b) == SubSeq(s, a + 1, b)

convert_be_u16(b) == b[1] * 256 + b[2]

\* The model checker's integers are 32-bit signed, so a u32 of 2^31 or more
\* is clamped to 2^31 - 1.  Such a value is only ever compared with the
\* length of a slice (far shorter) or stored; the comparisons of a u32 with a
\* constant of 2^31 or more (the magic words) are made on its bytes, WordIs.
convert_be_u32(b) ==
    IF b[1] >= 128 THEN 2147483647
    ELSE ((b[1] * 256 + b[2]) * 256 + b[3]) * 256 + b[4]

\* convert_be_u32(b) == w, for the u32 w whose big-endian bytes are wbytes.
WordIs(b, wbytes) == b = wbytes

\* to_be_bytes, used to lay out the input buffers.
BE16(n) == <<n \div 256, n % 256>>

BE32(n) == <<n \div 16777216, (n \div 65536) % 256, (n \div 256) % 256, n % 256>>

RECURSIVE Zeros(_)
Zeros(n) == IF n = 0 THEN <<>> ELSE <<0>> \o Zeros(n - 1)

RECURSIVE Concat(_)
Concat(ss) == IF ss = <<>> THEN <<>> ELSE Head(ss) \o Concat(Tail(ss))

(***************************************************************************)
(* The hunk-stream decoder: parse_code (code_m68k.rs).                     *)
(***************************************************************************)

HUNK_START == 17767   \* 0x4567

\* enum RawHunkType, in declaration order: the i-th name has the
\* discriminant HUNK_START + i - 1.
RawHunkType ==
    << "HUNK_START", "HUNK_END", "HUNK_LOCAL_CODE", "HUNK_GLOBAL_CODE",
       "HUNK_LOCAL_UDATA", "HUNK_GLOBAL_UDATA", "HUNK_LOCAL_IDATA",
       "HUNK_GLOBAL_IDATA", "HUNK_LOCAL_FARUDATA", "HUNK_GLOBAL_FARUDATA",
       "HUNK_LOCAL_FARIDATA", "HUNK_GLOBAL_FARIDATA", "HUNK_XREF_CODEJT16BIT",
       "HUNK_XREF_DATA16BIT", "HUNK_XREF_32BIT", "HUNK_LIBRARY_BREAK",
       "HUNK_GLOBAL_ENTRY", "HUNK_LOCAL_ENTRY", "HUNK_DIFF_8BIT",
       "HUNK_DIFF_16BIT", "HUNK_DIFF_32BIT", "HUNK_SEGMENT", "HUNK_INIT_CODE",
       "HUNK_DEINIT_CODE", "HUNK_MULTIDEF_GLOBAL", "HUNK_OVERLOAD_GLOBAL",
       "HUNK_XREF_CODE16BIT", "HUNK_XREF_CODE32BIT", "HUNK_FORCE_ACTIVE",
       "HUNK_GLOBAL_DATAPOINTER", "HUNK_GLOBAL_XPOINTER", "HUNK_GLOBAL_XVECTOR",
       "HUNK_XREF_PCREL32BIT", "HUNK_ILLEGAL1", "HUNK_ILLEGAL2",
       "HUNK_CFM_EXPORT", "HUNK_CFM_IMPORT", "HUNK_CFM_IMPORT_CONTAINER",
       "HUNK_SRC_BREAK", "HUNK_LOCAL_DATAPOINTER", "HUNK_LOCAL_XPOINTER",
       "HUNK_LOCAL_XVECTOR", "HUNK_EXCEPTION_INFO", "HUNK_CFM_INTERNAL",
       "HUNK_METHOD_REF", "HUNK_METHOD_CLASS_DEF", "HUNK_XREF_AMBIGUOUS16BIT",
       "HUNK_WEAK_IMPORT_CONTAINER" >>

\* The u16 discriminant of a RawHunkType name (`RawHunkType::X as u16`).
RawTag(raw) == HUNK_START + (CHOOSE i \in 1..Len(RawHunkType) : RawHunkType[i] = raw) - 1

\* The arms of `impl TryFrom<u16> for HunkParseState`: the parse state each
\* raw hunk type is sent to.
HunkParseStateOfRaw ==
    [ HUNK_START |-> "ParseObjSimpleHunk", HUNK_END |-> "ParseObjSimpleHunk",
      HUNK_LOCAL_CODE |-> "ParseObjCodeHunk", HUNK_GLOBAL_CODE |-> "ParseObjCodeHunk",
      HUNK_LOCAL_UDATA |-> "ParseDataHunk", HUNK_GLOBAL_UDATA |-> "ParseDataHunk",
      HUNK_LOCAL_IDATA |-> "ParseDataHunk", HUNK_GLOBAL_IDATA |-> "ParseDataHunk",
      HUNK_LOCAL_FARUDATA |-> "ParseDataHunk", HUNK_GLOBAL_FARUDATA |-> "ParseDataHunk",
      HUNK_LOCAL_FARIDATA |-> "ParseDataHunk", HUNK_GLOBAL_FARIDATA |-> "ParseDataHunk",
      HUNK_XREF_CODEJT16BIT |-> "ParseXRefHunk", HUNK_XREF_DATA16BIT |-> "ParseXRefHunk",
      HUNK_XREF_32BIT |-> "ParseXRefHunk", HUNK_LIBRARY_BREAK |-> "ParseReservedHunk",
      HUNK_GLOBAL_ENTRY |-> "ParseAltEntryHunk", HUNK_LOCAL_ENTRY |-> "ParseAltEntryHunk",
      HUNK_DIFF_8BIT |-> "ParseReservedHunk", HUNK_DIFF_16BIT |-> "ParseReservedHunk",
      HUNK_DIFF_32BIT |-> "ParseReservedHunk", HUNK_SEGMENT |-> "ParseObjSegmentHunk",
      HUNK_INIT_CODE |-> "ParseInitCodeHunk", HUNK_DEINIT_CODE |-> "ParseReservedHunk",
      HUNK_MULTIDEF_GLOBAL |-> "ParseObjSimpleHunk",
      HUNK_OVERLOAD_GLOBAL |-> "ParseObjSimpleHunk",
      HUNK_XREF_CODE16BIT |-> "ParseXRefHunk", HUNK_XREF_CODE32BIT |-> "ParseXRefHunk",
      HUNK_FORCE_ACTIVE |-> "ParseReservedHunk",
      HUNK_GLOBAL_DATAPOINTER |-> "ParseDataPointerHunk",
      HUNK_GLOBAL_XPOINTER |-> "ParseXPointerHunk",
      HUNK_GLOBAL_XVECTOR |-> "ParseXVectorHunk",
      HUNK_XREF_PCREL32BIT |-> "ParseXRefHunk", HUNK_ILLEGAL1 |-> "ParseReservedHunk",
      HUNK_ILLEGAL2 |-> "ParseReservedHunk", HUNK_CFM_EXPORT |-> "ParseObjSimpleHunk",
      HUNK_CFM_IMPORT |-> "ParseObjImportHunk",
      HUNK_CFM_IMPORT_CONTAINER |-> "ParseObjContainerHunk",
      HUNK_SRC_BREAK |-> "ParseObjSourceHunk",
      HUNK_LOCAL_DATAPOINTER |-> "ParseDataPointerHunk",
      HUNK_LOCAL_XPOINTER |-> "ParseXPointerHunk",
      HUNK_LOCAL_XVECTOR |-> "ParseXVectorHunk",
      HUNK_EXCEPTION_INFO |-> "ParseExceptInfoHunk",
      HUNK_CFM_INTERNAL |-> "ParseReservedHunk", HUNK_METHOD_REF |-> "ParseObjMethHunk",
      HUNK_METHOD_CLASS_DEF |-> "ParseObjClassHunk",
      HUNK_XREF_AMBIGUOUS16BIT |-> "ParseXRefHunk",
      HUNK_WEAK_IMPORT_CONTAINER |-> "ParseObjContainerHunk" ]

\* impl TryFrom<u16> for HunkParseState: Ok(state(raw)) for a value that is
\* some RawHunkType's discriminant, Err("Bad branch select for hunk") otherwise.
HunkParseState_try_from(value) ==
    IF \E i \in 1..Len(RawHunkType) : value = HUNK_START + i - 1
    THEN LET raw == RawHunkType[value - HUNK_START + 1]
         IN  [ok |-> TRUE, state |-> HunkParseStateOfRaw[raw], raw |-> raw]
    ELSE [ok |-> FALSE, state |-> "none", raw |-> "none"]

\* A decoded Hunk { hunk: HunkType::kind(..) }.  flag is the special_flag of
\* an ObjCodeHunk ("-" for the other payload types), code its owned bytes
\* (code, data, info or the raw pair bytes), aux its remaining fields.
MkHunk(kind, name_id, flag, code, aux) ==
    [kind |-> kind, name_id |-> name_id, flag |-> flag, code |-> code, aux |-> aux]

NoHunk == MkHunk("Undefined", 0, "-", <<>>, <<>>)

\* State of parse_code when it is entered on the slice `value`.
HunkFrame(value) ==
    [value |-> value, state |-> "ParseTag", tag |-> "none", data |-> value,
     hunks |-> <<>>, cur |-> NoHunk, outcome |-> "running", why |-> "-"]

\* A panic (the thread unwinds; parse_code returns nothing).
Panic(f, why) == [f EXCEPT !.outcome = "panic", !.why = why]

\* `return Err(format!(..))`.
Fail(f, why) == [f EXCEPT !.outcome = "err", !.why = why]

\* The tail of every Parse* arm: `match tag {..}` picks the HunkType variant
\* (Err "Bad branch selection" for a tag the arm does not list) and the
\* state becomes CommitHunk(Hunk { hunk }).
ToCommit(f, variants, name_id, flag, code, aux) ==
    IF f.tag \in DOMAIN variants
    THEN [f EXCEPT !.state = "CommitHunk",
                   !.cur = MkHunk(variants[f.tag], name_id, flag, code, aux)]
    ELSE Fail(f, "Bad branch selection")

\* HunkParseState::ParseTag: read the u16 tag, advance by 2, dispatch.
\* `&data[0..2]` panics on fewer than 2 bytes; try_from(tag).unwrap() panics
\* on a value that is no RawHunkType.
HunkParseTag(f) ==
    IF Len(f.data) < 2 THEN Panic(f, "index out of range")
    ELSE LET tag == convert_be_u16(Slice(f.data, 0, 2))
             t   == HunkParseState_try_from(tag)
         IN  IF ~t.ok THEN Panic([f EXCEPT !.data = DropBytes(@, 2)], "unwrap on Err")
             ELSE [f EXCEPT !.data = DropBytes(@, 2), !.state = t.state, !.tag = t.raw]

\* HunkParseState::ParseObjSimpleHunk: no payload.
ParseObjSimpleHunk(f) ==
    ToCommit(f, [HUNK_START |-> "Start", HUNK_END |-> "End",
                 HUNK_MULTIDEF_GLOBAL |-> "GlobalMultiDef",
                 HUNK_OVERLOAD_GLOBAL |-> "GlobalOverload",
                 HUNK_CFM_EXPORT |-> "CFMExport"], 0, "-", <<>>, <<>>)

\* The RawHunkType values whose arm of ParseReservedHunk builds
\* ReservedHunk::default(), which panics ("Encountered Reserved Hunk").
ReservedArms ==
    {"HUNK_LIBRARY_BREAK", "HUNK_DIFF_8BIT", "HUNK_DIFF_16BIT", "HUNK_DIFF_32BIT",
     "HUNK_DEINIT_CODE", "HUNK_ILLEGAL1", "HUNK_ILLEGAL2"}

\* HunkParseState::ParseReservedHunk: the listed tags panic in
\* ReservedHunk::default(); the others sent here (HUNK_FORCE_ACTIVE,
\* HUNK_CFM_INTERNAL) fall to `_ => return Err(..)`.
ParseReservedHunk(f) ==
    IF f.tag \in ReservedArms THEN Panic(f, "Encountered Reserved Hunk")
    ELSE Fail(f, "Bad branch selection")

\* Mutant of SpecialFlag: the flag of the most recent marker hunk anywhere
\* before the code hunk (a "sticky" context that is not reset by other records).
RECURSIVE SpecialFlag_Sticky(_)
SpecialFlag_Sticky(hunks) ==
    IF hunks = <<>> THEN "None"
    ELSE LET last == hunks[Len(hunks)].kind
         IN  CASE last = "CFMExport"      -> "CFMExport"
               [] last = "GlobalOverload" -> "GlobalOverload"
               [] last = "GlobalMultiDef" -> "GlobalMultiDef"
               [] OTHER -> SpecialFlag_Sticky(SubSeq(hunks, 1, Len(hunks) - 1))

\* `match &hunks.last().unwrap().hunk {..}`: the special flag of a code hunk,
\* from the variant of the last committed hunk (hunks is not empty).
SpecialFlag(hunks) ==
    LET last == hunks[Len(hunks)].kind
    IN  CASE last = "CFMExport"      -> "CFMExport"
          [] last = "GlobalOverload" -> "GlobalOverload"
          [] last = "GlobalMultiDef" -> "GlobalMultiDef"
          [] OTHER                   -> "None"

\* ParseObjCodeHunk with the cursor left at the code bytes instead of
\* after them.
ParseObjCodeHunk_CursorBeforeCode(f) ==
    IF f.hunks = <<>> THEN Panic(f, "unwrap on None")
    ELSE IF Len(f.data) < 16 THEN Panic(f, "index out of range")
    ELSE LET name_id         == convert_be_u32(Slice(f.data, 0, 4))
             size            == convert_be_u32(Slice(f.data, 4, 8))
             sym_offset      == convert_be_u32(Slice(f.data, 8, 12))
             sym_decl_offset == convert_be_u32(Slice(f.data, 12, 16))
             d16             == DropBytes(f.data, 16)
         IN  IF size > Len(d16) THEN Panic(f, "index out of range")
             ELSE ToCommit([f EXCEPT !.data = d16],
                           [HUNK_LOCAL_CODE |-> "LocalCode",
                            HUNK_GLOBAL_CODE |-> "GlobalCode"],
                           name_id, SpecialFlag(f.hunks), Slice(d16, 0, size),
                           <<sym_offset, sym_decl_offset>>)

\* HunkParseState::ParseObjCodeHunk: hunks.last().unwrap() panics on an empty
\* hunk list; then the 16-byte header and `size` bytes of code.
ParseObjCodeHunk(f) ==
    IF f.hunks = <<>> THEN Panic(f, "unwrap on None")
    ELSE IF Len(f.data) < 16 THEN Panic(f, "index out of range")
    ELSE LET name_id         == convert_be_u32(Slice(f.data, 0, 4))
             size            == convert_be_u32(Slice(f.data, 4, 8))
             sym_offset      == convert_be_u32(Slice(f.data, 8, 12))
             sym_decl_offset == convert_be_u32(Slice(f.data, 12, 16))
             d16             == DropBytes(f.data, 16)
         IN  IF size > Len(d16) THEN Panic(f, "index out of range")
             ELSE ToCommit([f EXCEPT !.data = DropBytes(d16, size)],
                           [HUNK_LOCAL_CODE |-> "LocalCode",
                            HUNK_GLOBAL_CODE |-> "GlobalCode"],
                           name_id, SpecialFlag(f.hunks), Slice(d16, 0, size),
                           <<sym_offset, sym_decl_offset>>)

\* The payload of ParseInitCodeHunk and ParseExceptInfoHunk: u32 size, then
\* `size` bytes.
SizedBytesHunk(f, variants) ==
    IF Len(f.data) < 4 THEN Panic(f, "index out of range")
    ELSE LET size == convert_be_u32(Slice(f.data, 0, 4))
             d4   == DropBytes(f.data, 4)
         IN  IF size > Len(d4) THEN Panic(f, "index out of range")
             ELSE ToCommit([f EXCEPT !.data = DropBytes(d4, size)], variants,
                           0, "-", Slice(d4, 0, size), <<>>)

ParseInitCodeHunk(f) == SizedBytesHunk(f, [HUNK_INIT_CODE |-> "InitCode"])

ParseExceptInfoHunk(f) == SizedBytesHunk(f, [HUNK_EXCEPTION_INFO |-> "ExceptionInfo"])

\* The tags for which ParseDataHunk captures `size` bytes of initialized data.
InitializedDataTags ==
    {"HUNK_GLOBAL_IDATA", "HUNK_LOCAL_IDATA", "HUNK_GLOBAL_FARIDATA", "HUNK_LOCAL_FARIDATA"}

\* ParseDataHunk reading `size` trailing bytes for every data kind.
ParseDataHunk_TrailingBytesForEveryKind(f) ==
    IF Len(f.data) < 16 THEN Panic(f, "index out of range")
    ELSE LET name_id         == convert_be_u32(Slice(f.data, 0, 4))
             size            == convert_be_u32(Slice(f.data, 4, 8))
             sym_offset      == convert_be_u32(Slice(f.data, 8, 12))
             sym_decl_offset == convert_be_u32(Slice(f.data, 12, 16))
             d16             == DropBytes(f.data, 16)
         IN  IF size > Len(d16) THEN Panic(f, "index out of range")
             ELSE ToCommit([f EXCEPT !.data = DropBytes(d16, size)],
                           [HUNK_GLOBAL_IDATA |-> "GlobalInitializedData",
                            HUNK_GLOBAL_UDATA |-> "GlobalUninitializedData",
                            HUNK_LOCAL_IDATA |-> "LocalInitializedData",
                            HUNK_LOCAL_UDATA |-> "LocalUninitializedData",
                            HUNK_GLOBAL_FARIDATA |-> "GlobalFarInitializedData",
                            HUNK_GLOBAL_FARUDATA |-> "GlobalFarUninitializedData",
                            HUNK_LOCAL_FARIDATA |-> "LocalFarInitializedData",
                            HUNK_LOCAL_FARUDATA |-> "LocalFarUninitializedData"],
                           name_id, "-", Slice(d16, 0, size),
                           <<sym_offset, sym_decl_offset>>)

\* HunkParseState::ParseDataHunk: 16-byte header; `size` trailing bytes for
\* the initialized kinds, none for the others.  ObjDataHunk::new keeps
\* name_id, sym_offset, sym_decl_offset and the bytes; `size` is not kept.
ParseDataHunk(f) ==
    IF Len(f.data) < 16 THEN Panic(f, "index out of range")
    ELSE LET name_id         == convert_be_u32(Slice(f.data, 0, 4))
             size            == convert_be_u32(Slice(f.data, 4, 8))
             sym_offset      == convert_be_u32(Slice(f.data, 8, 12))
             sym_decl_offset == convert_be_u32(Slice(f.data, 12, 16))
             d16             == DropBytes(f.data, 16)
             init            == f.tag \in InitializedDataTags
         IN  IF init /\ size > Len(d16) THEN Panic(f, "index out of range")
             ELSE ToCommit([f EXCEPT !.data = IF init THEN DropBytes(d16, size) ELSE d16],
                           [HUNK_GLOBAL_IDATA |-> "GlobalInitializedData",
                            HUNK_GLOBAL_UDATA |-> "GlobalUninitializedData",
                            HUNK_LOCAL_IDATA |-> "LocalInitializedData",
                            HUNK_LOCAL_UDATA |-> "LocalUninitializedData",
                            HUNK_GLOBAL_FARIDATA |-> "GlobalFarInitializedData",
                            HUNK_GLOBAL_FARUDATA |-> "GlobalFarUninitializedData",
                            HUNK_LOCAL_FARIDATA |-> "LocalFarInitializedData",
                            HUNK_LOCAL_FARUDATA |-> "LocalFarUninitializedData"],
                           name_id, "-", IF init THEN Slice(d16, 0, size) ELSE <<>>,
                           <<sym_offset, sym_decl_offset>>)

\* The payload shared by the arms that read (u32, u32) and advance by 8.
TwoWordHunk(f, variants) ==
    IF Len(f.data) < 8 THEN Panic(f, "index out of range")
    ELSE ToCommit([f EXCEPT !.data = DropBytes(@, 8)], variants,
                  convert_be_u32(Slice(f.data, 0, 4)), "-", <<>>,
                  <<convert_be_u32(Slice(f.data, 4, 8))>>)

\* The payload shared by the arms that read one u32 and advance by 4.
OneWordHunk(f, variants) ==
    IF Len(f.data) < 4 THEN Panic(f, "index out of range")
    ELSE ToCommit([f EXCEPT !.data = DropBytes(@, 4)], variants,
                  convert_be_u32(Slice(f.data, 0, 4)), "-", <<>>, <<>>)

ParseAltEntryHunk(f) ==
    TwoWordHunk(f, [HUNK_GLOBAL_ENTRY |-> "GlobalEntry", HUNK_LOCAL_ENTRY |-> "LocalEntry"])

ParseDataPointerHunk(f) ==
    TwoWordHunk(f, [HUNK_LOCAL_DATAPOINTER |-> "LocalDataPointer",
                    HUNK_GLOBAL_DATAPOINTER |-> "GlobalDataPointer"])

ParseXPointerHunk(f) ==
    TwoWordHunk(f, [HUNK_LOCAL_XPOINTER |-> "LocalXPointer",
                    HUNK_GLOBAL_XPOINTER |-> "GlobalXPointer"])

ParseXVectorHunk(f) ==
    TwoWordHunk(f, [HUNK_LOCAL_XVECTOR |-> "LocalXVector",
                    HUNK_GLOBAL_XVECTOR |-> "GlobalXVector"])

ParseObjSourceHunk(f) == TwoWordHunk(f, [HUNK_SRC_BREAK |-> "SrcBreak"])

ParseObjMethHunk(f) == TwoWordHunk(f, [HUNK_METHOD_REF |-> "MethodReference"])

ParseObjImportHunk(f) == OneWordHunk(f, [HUNK_CFM_IMPORT |-> "CFMImport"])

ParseObjSegmentHunk(f) == OneWordHunk(f, [HUNK_SEGMENT |-> "Segment"])

\* HunkParseState::ParseObjContainerHunk: four u32, advance by 16.
ParseObjContainerHunk(f) ==
    IF Len(f.data) < 16 THEN Panic(f, "index out of range")
    ELSE ToCommit([f EXCEPT !.data = DropBytes(@, 16)],
                  [HUNK_CFM_IMPORT_CONTAINER |-> "CFMImportContainer",
                   HUNK_WEAK_IMPORT_CONTAINER |-> "WeakImportContainer"],
                  convert_be_u32(Slice(f.data, 0, 4)), "-", <<>>,
                  <<convert_be_u32(Slice(f.data, 4, 8)),
                    convert_be_u32(Slice(f.data, 8, 12)),
                    convert_be_u32(Slice(f.data, 12, 16))>>)

\* HunkParseState::ParseXRefHunk: u32 name_id, u16 num_pairs, then num_pairs
\* pairs of (u32, u32), each read panicking when fewer than 8 bytes are left.
ParseXRefHunk(f) ==
    IF Len(f.data) < 6 THEN Panic(f, "index out of range")
    ELSE LET name_id   == convert_be_u32(Slice(f.data, 0, 4))
             num_pairs == convert_be_u16(Slice(f.data, 4, 6))
             d6        == DropBytes(f.data, 6)
         IN  IF 8 * num_pairs > Len(d6) THEN Panic(f, "index out of range")
             ELSE ToCommit([f EXCEPT !.data = DropBytes(d6, 8 * num_pairs)],
                           [HUNK_XREF_CODEJT16BIT |-> "XRefCodeJT16Bit",
                            HUNK_XREF_DATA16BIT |-> "XRefData16Bit",
                            HUNK_XREF_CODE16BIT |-> "XRefCode16Bit",
                            HUNK_XREF_32BIT |-> "XRef32Bit",
                            HUNK_XREF_CODE32BIT |-> "XRefCode32Bit",
                            HUNK_XREF_PCREL32BIT |-> "XRefPCRelative32Bit",
                            HUNK_XREF_AMBIGUOUS16BIT |-> "XRefAmbiguous16Bit"],
                           name_id, "-", Slice(d6, 0, 8 * num_pairs), <<num_pairs>>)

\* HunkParseState::ParseObjClassHunk: u32 name_id, u16 num_methods,
\* u16 num_pairs, then num_pairs pairs of (u32, u32).
ParseObjClassHunk(f) ==
    IF Len(f.data) < 8 THEN Panic(f, "index out of range")
    ELSE LET name_id     == convert_be_u32(Slice(f.data, 0, 4))
             num_methods == convert_be_u16(Slice(f.data, 4, 6))
             num_pairs   == convert_be_u16(Slice(f.data, 6, 8))
             d8          == DropBytes(f.data, 8)
         IN  IF 8 * num_pairs > Len(d8) THEN Panic(f, "index out of range")
             ELSE ToCommit([f EXCEPT !.data = DropBytes(d8, 8 * num_pairs)],
                           [HUNK_METHOD_CLASS_DEF |-> "MethodClassDefinition"],
                           name_id, "-", Slice(d8, 0, 8 * num_pairs),
                           <<num_methods, num_pairs>>)

\* Mutant of CommitHunk: an End record ends the decoding.
CommitHunk_StopAtEndRecord(f) ==
    LET pushed == [f EXCEPT !.hunks = Append(@, f.cur), !.cur = NoHunk, !.tag = "none"]
    IN  IF Len(f.data) = 0 \/ f.cur.kind = "End"
        THEN [pushed EXCEPT !.state = "End", !.outcome = "ok"]
        ELSE [pushed EXCEPT !.state = "ParseTag"]

\* CommitHunk that, when the hunk pushed is a marker, also writes the
\* marker into the special flag of a code hunk right before it.
CommitHunk_BackPatchesFlag(f) ==
    LET n       == Len(f.hunks)
        patch   == /\ n > 0
                   /\ f.cur.kind \in {"CFMExport", "GlobalOverload", "GlobalMultiDef"}
                   /\ f.hunks[n].kind \in {"LocalCode", "GlobalCode"}
        earlier == IF patch THEN [f.hunks EXCEPT ![n].flag = f.cur.kind] ELSE f.hunks
        pushed  == [f EXCEPT !.hunks = Append(earlier, f.cur), !.cur = NoHunk, !.tag = "none"]
    IN  IF Len(f.data) = 0
        THEN [pushed EXCEPT !.state = "End", !.outcome = "ok"]
        ELSE [pushed EXCEPT !.state = "ParseTag"]

\* HunkParseState::CommitHunk: push the hunk; End when no byte is left (the
\* loop then exits and parse_code returns Ok(CodeHunks { hunks })), ParseTag
\* otherwise.
CommitHunk(f) ==
    LET pushed == [f EXCEPT !.hunks = Append(@, f.cur), !.cur = NoHunk, !.tag = "none"]
    IN  IF Len(f.data) = 0
        THEN [pushed EXCEPT !.state = "End", !.outcome = "ok"]
        ELSE [pushed EXCEPT !.state = "ParseTag"]

\* One pass through the loop of parse_code.
HunkStep(f) ==
    CASE f.state = "ParseTag"              -> HunkParseTag(f)
      [] f.state = "ParseObjSimpleHunk"    -> ParseObjSimpleHunk(f)
      [] f.state = "ParseReservedHunk"     -> ParseReservedHunk(f)
      [] f.state = "ParseObjCodeHunk"      -> ParseObjCodeHunk(f)
      [] f.state = "ParseInitCodeHunk"     -> ParseInitCodeHunk(f)
      [] f.state = "ParseDataHunk"         -> ParseDataHunk(f)
      [] f.state = "ParseAltEntryHunk"     -> ParseAltEntryHunk(f)
      [] f.state = "ParseXRefHunk"         -> ParseXRefHunk(f)
      [] f.state = "ParseExceptInfoHunk"   -> ParseExceptInfoHunk(f)
      [] f.state = "ParseObjContainerHunk" -> ParseObjContainerHunk(f)
      [] f.state = "ParseObjImportHunk"    -> ParseObjImportHunk(f)
      [] f.state = "ParseDataPointerHunk"  -> ParseDataPointerHunk(f)
      [] f.state = "ParseXPointerHunk"     -> ParseXPointerHunk(f)
      [] f.state = "ParseXVectorHunk"      -> ParseXVectorHunk(f)
      [] f.state = "ParseObjSourceHunk"    -> ParseObjSourceHunk(f)
      [] f.state = "ParseObjSegmentHunk"   -> ParseObjSegmentHunk(f)
      [] f.state = "ParseObjMethHunk"      -> ParseObjMethHunk(f)
      [] f.state = "ParseObjClassHunk"     -> ParseObjClassHunk(f)
      [] f.state = "CommitHunk"            -> CommitHunk(f)

\* parse_code run to its end from frame f: the frame in which it returns
\* (outcome "ok" or "err") or panics.
RECURSIVE RunHunks(_)
RunHunks(f) == IF f.outcome # "running" THEN f ELSE RunHunks(HunkStep(f))

\* parse_code(value) / CodeHunks::try_from(value).
parse_code(value) == RunHunks(HunkFrame(value))

(***************************************************************************)
(* Input hunk streams.  A stream is laid out record by record in the       *)
(* format parse_code reads; the decoder above sees only the bytes.         *)
(***************************************************************************)

MaxRecs == 3      \* most records in a generated stream
MaxPayload == 1   \* largest size / pair count written into a record
TagMargin == 4    \* unmapped tag values tried on each side of the mapped range

\* p bytes of payload (68K `rts` opcodes bytes 0x4E 0x75 repeated).
RECURSIVE PayloadBytes(_)
PayloadBytes(p) == IF p = 0 THEN <<>> ELSE <<78>> \o PayloadBytes(p - 1)

\* The bytes that follow the tag of a well-formed record of raw type `raw`
\* whose size (or pair count) field holds p.
RecordPayload(raw, p) ==
    LET st == HunkParseStateOfRaw[raw]
    IN  CASE st \in {"ParseObjSimpleHunk", "ParseReservedHunk"} -> <<>>
          [] st = "ParseObjCodeHunk" ->
                BE32(1) \o BE32(p) \o BE32(0) \o BE32(0) \o PayloadBytes(p)
          [] st = "ParseDataHunk" ->
                BE32(2) \o BE32(p) \o BE32(0) \o BE32(0) \o
                (IF raw \in InitializedDataTags THEN PayloadBytes(p) ELSE <<>>)
          [] st \in {"ParseInitCodeHunk", "ParseExceptInfoHunk"} ->
                BE32(p) \o PayloadBytes(p)
          [] st = "ParseXRefHunk" -> BE32(1) \o BE16(p) \o PayloadBytes(8 * p)
          [] st = "ParseObjClassHunk" ->
                BE32(1) \o BE16(3) \o BE16(p) \o PayloadBytes(8 * p)
          [] st = "ParseObjContainerHunk" -> BE32(1) \o BE32(0) \o BE32(0) \o BE32(1)
          [] st \in {"ParseObjImportHunk", "ParseObjSegmentHunk"} -> BE32(1)
          [] OTHER -> BE32(1) \o BE32(2)

HunkRecord(raw, p) == BE16(RawTag(raw)) \o RecordPayload(raw, p)

\* The record kinds that multi-record streams are built from.
StreamRaws ==
    {"HUNK_START", "HUNK_END", "HUNK_CFM_EXPORT", "HUNK_OVERLOAD_GLOBAL",
     "HUNK_MULTIDEF_GLOBAL", "HUNK_GLOBAL_CODE", "HUNK_LOCAL_CODE",
     "HUNK_GLOBAL_IDATA", "HUNK_LOCAL_UDATA", "HUNK_LIBRARY_BREAK",
     "HUNK_FORCE_ACTIVE"}

RECURSIVE StreamOf(_, _)
StreamOf(raws, p) ==
    IF raws = <<>> THEN <<>> ELSE HunkRecord(Head(raws), p) \o StreamOf(Tail(raws), p)

\* Sequences over S of length 0..n.
SeqsUpTo(S, n) == UNION {[1..k -> S] : k \in 0..n}

\* The last byte cut off (an incomplete tail), or not.
Truncate(s, cut) == IF cut /\ s # <<>> THEN SubSeq(s, 1, Len(s) - 1) ELSE s

\* The hunk slices the decoder is run on: multi-record streams, whole or cut
\* short by a byte, one-record streams for every mapped tag, every mapped
\* tag with no payload followed by a GlobalCode record, and one-record
\* streams for every u16 tag value around the mapped range and at the ends
\* of the u16 range.
HunkInputs ==
    {Truncate(StreamOf(raws, p), cut) :
        raws \in SeqsUpTo(StreamRaws, MaxRecs), p \in 0..MaxPayload, cut \in BOOLEAN}
    \cup {HunkRecord(RawHunkType[i], p) \o tail :
            i \in 1..Len(RawHunkType), p \in 0..MaxPayload,
            tail \in {<<>>, HunkRecord("HUNK_END", 0)}}
    \cup {BE16(RawTag(RawHunkType[i])) \o HunkRecord("HUNK_GLOBAL_CODE", p) :
            i \in 1..Len(RawHunkType), p \in 0..MaxPayload}
    \cup {BE16(t) \o PayloadBytes(p) :
            t \in ((HUNK_START - TagMargin)..(HUNK_START - 1))
                  \cup ((HUNK_START + Len(RawHunkType))..(HUNK_START + Len(RawHunkType) - 1 + TagMargin))
                  \cup {0, 65535},
            p \in 0..MaxPayload}

Idle == [state |-> "Idle", outcome |-> "idle"]

(***************************************************************************)
(* SpecHunk: parse_code run on each input stream.                          *)
(***************************************************************************)

HunkInit ==
    /\ hunkp \in {HunkFrame(v) : v \in HunkInputs}
    /\ objp = Idle
    /\ libp = Idle
    /\ symp = Idle
    /\ typep = Idle
    /\ timep = Idle
    /\ hashp = Idle
    /\ oncep = Idle
    /\ lookp = Idle

\* parse_code takes the pass of its loop for state st, giving frame next.
HunkPass(st, next) ==
    /\ hunkp.outcome = "running"
    /\ hunkp.state = st
    /\ hunkp' = next
    /\ UNCHANGED <<objp, libp, symp, typep, timep, hashp, oncep, lookp>>

HunkNext ==
    \/ HunkPass("ParseTag", HunkParseTag(hunkp))
    \/ HunkPass("ParseObjSimpleHunk", ParseObjSimpleHunk(hunkp))
    \/ HunkPass("ParseReservedHunk", ParseReservedHunk(hunkp))
    \/ HunkPass("ParseObjCodeHunk", ParseObjCodeHunk(hunkp))
    \/ HunkPass("ParseInitCodeHunk", ParseInitCodeHunk(hunkp))
    \/ HunkPass("ParseDataHunk", ParseDataHunk(hunkp))
    \/ HunkPass("ParseAltEntryHunk", ParseAltEntryHunk(hunkp))
    \/ HunkPass("ParseXRefHunk", ParseXRefHunk(hunkp))
    \/ HunkPass("ParseExceptInfoHunk", ParseExceptInfoHunk(hunkp))
    \/ HunkPass("ParseObjContainerHunk", ParseObjContainerHunk(hunkp))
    \/ HunkPass("ParseObjImportHunk", ParseObjImportHunk(hunkp))
    \/ HunkPass("ParseDataPointerHunk", ParseDataPointerHunk(hunkp))
    \/ HunkPass("ParseXPointerHunk", ParseXPointerHunk(hunkp))
    \/ HunkPass("ParseXVectorHunk", ParseXVectorHunk(hunkp))
    \/ HunkPass("ParseObjSourceHunk", ParseObjSourceHunk(hunkp))
    \/ HunkPass("ParseObjSegmentHunk", ParseObjSegmentHunk(hunkp))
    \/ HunkPass("ParseObjMethHunk", ParseObjMethHunk(hunkp))
    \/ HunkPass("ParseObjClassHunk", ParseObjClassHunk(hunkp))
    \/ HunkPass("CommitHunk", CommitHunk(hunkp))

SpecHunk == HunkInit /\ [][HunkNext]_vars

(***************************************************************************)
(* The type-table decoder: TryFrom<(&[u8], u32)> for TypeTable             *)
(* (types_m68k.rs).  The frame holds the cursor `data`, the list `types`,  *)
(* the count `num_types`, the counter `remaining_types` and the state with *)
(* the id it carries.                                                      *)
(***************************************************************************)

\* enum RawOtherDataType: the parse state selected by tag 0, 1, .. 8.
RawOtherDataType ==
    <<"ParsePointer", "ParseArray", "ParseStruct", "ParseEnum", "ParsePascalArray",
      "ParseRange", "ParseSet", "ParsePascalEnum", "ParsePascalString">>

\* DataType::from(u32) yields a BasicDataType for these ids, Other(id) for the rest.
IsBasicDataType(id) == id \in (0..17) \cup (100..108)

\* A decoded OtherDataType: its variant, its raw_length(), its member count
\* and, for an Enum, the id of its base type.
MkType(kind, raw_length, members, base) ==
    [kind |-> kind, raw_length |-> raw_length, members |-> members, base |-> base]

NoType == MkType("Undefined", 0, 0, 0)

\* TypeTable::try_from on entry: num_types == 0 returns the empty table at once.
TypeFrame(data, num_types) ==
    [data |-> data, num_types |-> num_types, remaining_types |-> num_types,
     types |-> <<>>,
     state |-> IF num_types = 0 THEN "End" ELSE "ParseTag",
     id |-> 0, cur |-> NoType,
     outcome |-> IF num_types = 0 THEN "ok" ELSE "running", why |-> "-"]

\* TypeParseState::ParseTag: u16 tag, u32 id, advance by 6, then
\* TypeParseState::try_from((tag, id)).unwrap().
TypeParseTag(f) ==
    IF Len(f.data) < 6 THEN Panic(f, "index out of range")
    ELSE LET tag == convert_be_u16(Slice(f.data, 0, 2))
             id  == convert_be_u32(Slice(f.data, 2, 6))
             g   == [f EXCEPT !.data = DropBytes(f.data, 6), !.id = id]
         IN  IF tag >= Len(RawOtherDataType)
             THEN Panic(g, "unwrap on Err: Bad branch select for type")
             ELSE [g EXCEPT !.state = RawOtherDataType[tag + 1]]

\* The From<&[u8]> impls that read a fixed number of bytes (Pointer 6,
\* Array 12, PascalArray 20, PascalRange 20, PascalSet 12, PascalString 8);
\* raw_length() is that same number.  The cursor is not moved here.
FixedSizeType(f, kind, n) ==
    IF Len(f.data) < n THEN Panic(f, "index out of range")
    ELSE [f EXCEPT !.cur = MkType(kind, n, 0, 0), !.state = "CommitType"]

ParsePointer(f) == FixedSizeType(f, "TypePointer", 6)

ParseArray(f) == FixedSizeType(f, "TypeArray", 12)

ParsePascalArray(f) == FixedSizeType(f, "TypePascalArray", 20)

ParseRange(f) == FixedSizeType(f, "TypePascalRange", 20)

ParseSet(f) == FixedSizeType(f, "TypePascalSet", 12)

ParsePascalString(f) == FixedSizeType(f, "TypePascalString", 8)

\* Struct::from: name u32, size u32, num_members u16, then num_members
\* StructMember records of 12 bytes.  raw_length() = 10 + 12 * members.
ParseStruct(f) ==
    IF Len(f.data) < 10 THEN Panic(f, "index out of range")
    ELSE LET num_members == convert_be_u16(Slice(f.data, 8, 10))
         IN  IF Len(f.data) < 10 + 12 * num_members THEN Panic(f, "index out of range")
             ELSE [f EXCEPT !.cur = MkType("TypeStruct", 10 + 12 * num_members, num_members, 0),
                            !.state = "CommitType"]

\* Enum::try_from with no check of baseid.
ParseEnum_AnyBase(f) ==
    IF Len(f.data) < 8 THEN Panic(f, "index out of range")
    ELSE LET baseid      == convert_be_u16(Slice(f.data, 4, 6))
             num_members == convert_be_u16(Slice(f.data, 6, 8))
         IN  IF Len(f.data) < 8 + 8 * num_members THEN Panic(f, "index out of range")
             ELSE [f EXCEPT !.cur = MkType("TypeEnum", 8 + 8 * num_members, num_members, baseid),
                            !.state = "CommitType"]

\* Enum::try_from: name u32, baseid u16, num_members u16, then num_members
\* EnumMember records of 8 bytes; only after the members is baseid checked,
\* and an id that is not a BasicDataType is returned as Err by the table
\* decoder.  raw_length() = 8 + 8 * members.
ParseEnum(f) ==
    IF Len(f.data) < 8 THEN Panic(f, "index out of range")
    ELSE LET baseid      == convert_be_u16(Slice(f.data, 4, 6))
             num_members == convert_be_u16(Slice(f.data, 6, 8))
         IN  IF Len(f.data) < 8 + 8 * num_members THEN Panic(f, "index out of range")
             ELSE IF ~IsBasicDataType(baseid) THEN Fail(f, "Bad Type for Enum")
             ELSE [f EXCEPT !.cur = MkType("TypeEnum", 8 + 8 * num_members, num_members, baseid),
                            !.state = "CommitType"]

\* PascalEnum::from: name u32, then convert_be_u16(&data[4..8].try_into().unwrap()):
\* a four-byte slice never converts to [u8; 2], so the unwrap panics whenever
\* the slice itself is in range.
ParsePascalEnum(f) ==
    IF Len(f.data) < 8 THEN Panic(f, "index out of range")
    ELSE Panic(f, "unwrap on Err: TryFromSliceError")

\* CommitType that goes on while bytes remain instead of counting down to zero.
CommitType_UntilEndOfData(f) ==
    IF f.cur.raw_length > Len(f.data) THEN Panic(f, "index out of range")
    ELSE LET g == [f EXCEPT !.data = DropBytes(f.data, f.cur.raw_length),
                            !.types = Append(f.types, [typ |-> f.cur, id |-> f.id]),
                            !.remaining_types = f.remaining_types - 1]
         IN  IF g.data # <<>>
             THEN [g EXCEPT !.state = "ParseTag"]
             ELSE [g EXCEPT !.state = "End", !.outcome = "ok"]

\* CommitType advancing by the raw length of the TypeDefinition, 2 + that of
\* its type.
CommitType_AdvanceByDefinitionLength(f) ==
    IF f.cur.raw_length + 2 > Len(f.data) THEN Panic(f, "index out of range")
    ELSE LET g == [f EXCEPT !.data = DropBytes(f.data, f.cur.raw_length + 2),
                            !.types = Append(f.types, [typ |-> f.cur, id |-> f.id]),
                            !.remaining_types = f.remaining_types - 1]
         IN  IF g.remaining_types # 0
             THEN [g EXCEPT !.state = "ParseTag"]
             ELSE [g EXCEPT !.state = "End", !.outcome = "ok"]

\* TypeParseState::CommitType: advance by typ.raw_length(), push, count down.
CommitType(f) ==
    IF f.cur.raw_length > Len(f.data) THEN Panic(f, "index out of range")
    ELSE LET g == [f EXCEPT !.data = DropBytes(f.data, f.cur.raw_length),
                            !.types = Append(f.types, [typ |-> f.cur, id |-> f.id]),
                            !.remaining_types = f.remaining_types - 1]
         IN  IF g.remaining_types # 0
             THEN [g EXCEPT !.state = "ParseTag"]
             ELSE [g EXCEPT !.state = "End", !.outcome = "ok"]

\* One pass of the loop `while state != TypeParseState::End`.
TypeStep(f) ==
    CASE f.state = "ParseTag" -> TypeParseTag(f)
      [] f.state = "ParsePointer" -> ParsePointer(f)
      [] f.state = "ParseArray" -> ParseArray(f)
      [] f.state = "ParseStruct" -> ParseStruct(f)
      [] f.state = "ParseEnum" -> ParseEnum(f)
      [] f.state = "ParsePascalArray" -> ParsePascalArray(f)
      [] f.state = "ParseRange" -> ParseRange(f)
      [] f.state = "ParseSet" -> ParseSet(f)
      [] f.state = "ParsePascalEnum" -> ParsePascalEnum(f)
      [] f.state = "ParsePascalString" -> ParsePascalString(f)
      [] f.state = "CommitType" -> CommitType(f)

RECURSIVE RunTypes(_)
RunTypes(f) == IF f.outcome # "running" THEN f ELSE RunTypes(TypeStep(f))

\* TypeTable::try_from((data, num_types)), run to its end.
TypeTable_try_from(data, num_types) == RunTypes(TypeFrame(data, num_types))

(***************************************************************************)
(* The symbol-table decoder: parse_symtab (symtable_m68k.rs).              *)
(***************************************************************************)

\* Routine::default(); typ is RoutineType::Unknown until ProcFunc sets it.
NoRoutine == [typ |-> "Unknown", statement_locations |-> <<>>, local_vars |-> <<>>]

\* parse_symtab on entry.
SymFrame(value) ==
    [value |-> value, state |-> "SymTabHeaderStart",
     type_offset |-> 0, num_types |-> 0, unnamed |-> 0,
     routines |-> <<>>, routine_bytes |-> <<>>, current_routine |-> NoRoutine,
     remaining_local_vars |-> 0, type_table |-> <<>>,
     outcome |-> "running", why |-> "-"]

\* Leaving the loop: Ok(SymbolTable::new(routines, type_table)).
SymEnd(f) == [f EXCEPT !.state = "End", !.outcome = "ok"]

SymTabHeaderStart(f) == [f EXCEPT !.state = "SymTabHeaderMagicWord"]

\* The magic word state with the comparison left out.
SymTabHeaderMagicWord_Unchecked(f) ==
    IF Len(f.value) < 4 THEN Panic(f, "index out of range")
    ELSE [f EXCEPT !.state = "SymTabHeaderTypeOffset"]

\* SymTableMagicWord = 0x53594D48.
SymTabHeaderMagicWord(f) ==
    IF Len(f.value) < 4 THEN Panic(f, "index out of range")
    ELSE IF ~WordIs(Slice(f.value, 0, 4), <<83, 89, 77, 72>>) THEN Fail(f, "Bad magic word")
    ELSE [f EXCEPT !.state = "SymTabHeaderTypeOffset"]

SymTabHeaderTypeOffset(f) ==
    IF Len(f.value) < 8 THEN Panic(f, "index out of range")
    ELSE LET x == convert_be_u32(Slice(f.value, 4, 8))
         IN  [f EXCEPT !.type_offset = x,
                       !.state = IF x # 0 THEN "SymTabHeaderTypes" ELSE "SymTabHeaderReserved"]

SymTabHeaderTypes(f) ==
    IF Len(f.value) < 12 THEN Panic(f, "index out of range")
    ELSE [f EXCEPT !.num_types = convert_be_u32(Slice(f.value, 8, 12)),
                   !.state = "SymTabHeaderUnnamed"]

SymTabHeaderUnnamed(f) ==
    IF Len(f.value) < 16 THEN Panic(f, "index out of range")
    ELSE [f EXCEPT !.unnamed = convert_be_u32(Slice(f.value, 12, 16)),
                   !.state = IF f.type_offset # 0 THEN "ProcessTypeTableStart"
                             ELSE "SymTabHeaderReserved"]

\* The table is decoded from value[type_offset..] and the Result unwrapped:
\* an Err of the type-table decoder becomes a panic here.
ProcessTypeTableStart(f) ==
    IF f.type_offset > Len(f.value) THEN Panic(f, "index out of range")
    ELSE LET t == TypeTable_try_from(DropBytes(f.value, f.type_offset), f.num_types)
         IN  CASE t.outcome = "ok" ->
                    [f EXCEPT !.type_table = t.types, !.state = "SymTabHeaderReserved"]
               [] t.outcome = "err" -> Panic(f, "unwrap on Err: type table")
               [] OTHER -> Panic(f, t.why)

SymTabHeaderReserved(f) ==
    IF Len(f.value) < 32 THEN Panic(f, "index out of range")
    ELSE [f EXCEPT !.state = "ProcessRoutineTableStart"]

\* The routine region is everything from offset 32 to the end of the slice.
ProcessRoutineTableStart(f) ==
    IF Len(f.value) > 32
    THEN [f EXCEPT !.routine_bytes = DropBytes(f.value, 32), !.state = "ProcessRoutineStart"]
    ELSE SymEnd(f)

ProcessRoutineStart(f) ==
    IF f.routine_bytes # <<>>
    THEN [f EXCEPT !.current_routine = NoRoutine, !.state = "ProcessRoutineProcFunc"]
    ELSE SymEnd([f EXCEPT !.current_routine = NoRoutine])

ProcessRoutineProcFunc(f) ==
    IF Len(f.routine_bytes) < 2 THEN Panic(f, "index out of range")
    ELSE LET x == convert_be_u16(Slice(f.routine_bytes, 0, 2))
         IN  IF x \notin {0, 1} THEN Fail(f, "Bad Routine Type")
             ELSE [f EXCEPT !.current_routine.typ = IF x = 0 THEN "Procedure" ELSE "Function",
                            !.routine_bytes = DropBytes(f.routine_bytes, 2),
                            !.state = "ProcessRoutineStatementList"]

\* ProcessRoutineStatementList with the end-of-list pair consumed but left out
\* of the routine's list.
ProcessRoutineStatementList_EndPairDropped(f) ==
    IF Len(f.routine_bytes) < 8 THEN Panic(f, "index out of range")
    ELSE LET eol == WordIs(Slice(f.routine_bytes, 0, 4), <<255, 255, 255, 255>>)
             loc == [offset |-> convert_be_u32(Slice(f.routine_bytes, 0, 4)),
                     source_offset |-> convert_be_u32(Slice(f.routine_bytes, 4, 8)),
                     is_end_of_list |-> eol]
         IN  [f EXCEPT !.current_routine.statement_locations =
                            IF eol THEN @ ELSE Append(@, loc),
                       !.routine_bytes = DropBytes(f.routine_bytes, 8),
                       !.state = IF eol THEN "ProcessRoutineLocalVarsStart"
                                 ELSE "ProcessRoutineStatementList"]

\* One (offset, source_offset) pair; the pair whose offset is 0xFFFFFFFF is
\* kept in the list and ends it.
ProcessRoutineStatementList(f) ==
    IF Len(f.routine_bytes) < 8 THEN Panic(f, "index out of range")
    ELSE LET eol == WordIs(Slice(f.routine_bytes, 0, 4), <<255, 255, 255, 255>>)
             loc == [offset |-> convert_be_u32(Slice(f.routine_bytes, 0, 4)),
                     source_offset |-> convert_be_u32(Slice(f.routine_bytes, 4, 8)),
                     is_end_of_list |-> eol]
         IN  [f EXCEPT !.current_routine.statement_locations = Append(@, loc),
                       !.routine_bytes = DropBytes(f.routine_bytes, 8),
                       !.state = IF eol THEN "ProcessRoutineLocalVarsStart"
                                 ELSE "ProcessRoutineStatementList"]

\* The u16 count of locals.  A count of zero leaves the cursor on the count
\* and goes back to ProcessRoutineStart without pushing the routine.
ProcessRoutineLocalVarsStart(f) ==
    IF Len(f.routine_bytes) < 2 THEN Panic(f, "index out of range")
    ELSE LET n == convert_be_u16(Slice(f.routine_bytes, 0, 2))
         IN  IF n # 0
             THEN [f EXCEPT !.remaining_local_vars = n,
                            !.routine_bytes = DropBytes(f.routine_bytes, 2),
                            !.state = "ProcessRoutineLocalVars"]
             ELSE [f EXCEPT !.remaining_local_vars = n, !.state = "ProcessRoutineStart"]

\* LocalVar::from reads 14 bytes and unwraps StorageKind (0..2) and
\* StorageClass (0..3).
ProcessRoutineLocalVars(f) ==
    IF Len(f.routine_bytes) < 14 THEN Panic(f, "index out of range")
    ELSE LET kind   == f.routine_bytes[9]
             sclass == f.routine_bytes[10]
             local  == [name_id |-> convert_be_u32(Slice(f.routine_bytes, 0, 4)),
                        var_type |-> convert_be_u32(Slice(f.routine_bytes, 4, 8)),
                        kind |-> kind, sclass |-> sclass,
                        wher |-> convert_be_u32(Slice(f.routine_bytes, 10, 14))]
         IN  IF kind > 2 \/ sclass > 3 THEN Panic(f, "unwrap on Err: Bad Storage Kind")
             ELSE LET g == [f EXCEPT !.current_routine.local_vars = Append(@, local),
                                     !.routine_bytes = DropBytes(f.routine_bytes, 14),
                                     !.remaining_local_vars = f.remaining_local_vars - 1]
                  IN  IF g.remaining_local_vars # 0
                      THEN [g EXCEPT !.state = "ProcessRoutineLocalVars"]
                      ELSE [g EXCEPT !.routines = Append(g.routines, g.current_routine),
                                     !.state = "ProcessRoutineStart"]

\* One pass of the loop `while state != ParseState::End`.
SymStep(f) ==
    CASE f.state = "SymTabHeaderStart" -> SymTabHeaderStart(f)
      [] f.state = "SymTabHeaderMagicWord" -> SymTabHeaderMagicWord(f)
      [] f.state = "SymTabHeaderTypeOffset" -> SymTabHeaderTypeOffset(f)
      [] f.state = "SymTabHeaderTypes" -> SymTabHeaderTypes(f)
      [] f.state = "SymTabHeaderUnnamed" -> SymTabHeaderUnnamed(f)
      [] f.state = "ProcessTypeTableStart" -> ProcessTypeTableStart(f)
      [] f.state = "SymTabHeaderReserved" -> SymTabHeaderReserved(f)
      [] f.state = "ProcessRoutineTableStart" -> ProcessRoutineTableStart(f)
      [] f.state = "ProcessRoutineStart" -> ProcessRoutineStart(f)
      [] f.state = "ProcessRoutineProcFunc" -> ProcessRoutineProcFunc(f)
      [] f.state = "ProcessRoutineStatementList" -> ProcessRoutineStatementList(f)
      [] f.state = "ProcessRoutineLocalVarsStart" -> ProcessRoutineLocalVarsStart(f)
      [] f.state = "ProcessRoutineLocalVars" -> ProcessRoutineLocalVars(f)

RECURSIVE RunSym(_)
RunSym(f) == IF f.outcome # "running" THEN f ELSE RunSym(SymStep(f))

parse_symtab(value) == RunSym(SymFrame(value))

(***************************************************************************)
(* The name hash (util.rs).                                                *)
(***************************************************************************)

NAMEHASH == 1024

\* The loop of nametable_hash on the u8 accumulator, for each byte c:
\* u = (u >> 3) | (u << 5); u += c.  The two shifted halves share no bit, so
\* the OR is a sum.  The result given here is the wrapped one.  (The name is
\* walked by halves, the accumulator after the first half being bound before
\* the second half is entered, to keep the evaluation shallow on long names.)
RECURSIVE HashAcc(_, _)
HashAcc(name, u) ==
    IF name = <<>> THEN u
    ELSE IF Len(name) = 1 THEN ((u \div 8) + ((u * 32) % 256) + name[1]) % 256
    ELSE LET h == Len(name) \div 2
         IN  CHOOSE r \in {HashAcc(SubSeq(name, h + 1, Len(name)), v) :
                              v \in {HashAcc(SubSeq(name, 1, h), u)}} : TRUE

\* `u += *c` leaves the u8 range for some byte of the name: a build with
\* overflow checks panics there, a build without them wraps.
RECURSIVE HashAddOverflows(_, _)
HashAddOverflows(name, u) ==
    IF name = <<>> THEN FALSE
    ELSE IF Len(name) = 1 THEN (u \div 8) + ((u * 32) % 256) + name[1] > 255
    ELSE LET h == Len(name) \div 2
         IN  \E v \in {HashAcc(SubSeq(name, 1, h), u)} :
                 \/ HashAddOverflows(SubSeq(name, 1, h), u)
                 \/ HashAddOverflows(SubSeq(name, h + 1, Len(name)), v)

nametable_hash(name) ==
    LET hashval == Len(name) % 256
    IN  IF hashval # 0 THEN ((hashval * 256) + HashAcc(name, 0)) % NAMEHASH ELSE 0

(***************************************************************************)
(* The object decoder: parse_object (objects_m68k.rs).                     *)
(***************************************************************************)

\* ObjectHeader::default().
NoObjectHeader ==
    [version |-> 0, flags |-> 0, obj_size |-> 0, nametable_offset |-> 0,
     nametable_names |-> 0, symtable_offset |-> 0, symtable_size |-> 0,
     code_size |-> 0, udata_size |-> 0, idata_size |-> 0,
     has_flags |-> 0, is_pascal |-> 0, is_fourbyteint |-> 0, is_eightdouble |-> 0,
     is_mc68881 |-> 0, basereg |-> 0]

\* parse_object on entry.  `build` is the build the decoder was compiled as:
\* "debug" checks integer overflow, "release" wraps.
ObjFrame(value, build) ==
    [value |-> value, build |-> build, state |-> "ObjectHeaderStart",
     header |-> NoObjectHeader, remaining_names |-> 0, name_bytes |-> <<>>,
     name_table |-> <<>>, name_id |-> 0,
     symbol_table |-> [routines |-> <<>>, types |-> <<>>],
     code_objects |-> <<>>, outcome |-> "running", why |-> "-"]

\* A u32 header field read at value[a..a+4] and stored, then on to `next`.
ObjU32(f, a, field, next) ==
    IF Len(f.value) < a + 4 THEN Panic(f, "index out of range")
    ELSE [f EXCEPT !.header[field] = convert_be_u32(Slice(f.value, a, a + 4)),
                   !.state = next]

\* A u8 header field read at value[a] and stored, then on to `next`.
ObjU8(f, a, field, next) ==
    IF Len(f.value) <= a THEN Panic(f, "index out of range")
    ELSE [f EXCEPT !.header[field] = f.value[a + 1], !.state = next]

\* x - 1 on an unsigned counter that is 0: the wrapped value is the largest
\* value of the type, written here as the largest integer the model holds.
WrapSub1(n) == IF n = 0 THEN 2147483647 ELSE n - 1

ObjectHeaderStart(f) == [f EXCEPT !.state = "ObjectHeaderMagicWord"]

\* ObjectMagicWord = 0xfeedbead.
ObjectHeaderMagicWord(f) ==
    IF Len(f.value) < 4 THEN Panic(f, "index out of range")
    ELSE IF ~WordIs(Slice(f.value, 0, 4), <<254, 237, 190, 173>>) THEN Fail(f, "Bad magic word")
    ELSE [f EXCEPT !.state = "ObjectHeaderVersion"]

ObjectHeaderVersion(f) ==
    IF Len(f.value) < 6 THEN Panic(f, "index out of range")
    ELSE [f EXCEPT !.header.version = convert_be_u16(Slice(f.value, 4, 6)),
                   !.state = "ObjectHeaderFlags"]

\* ObjectFlags::from_bits(x).unwrap(): None for a bit outside 0x000F.
ObjectHeaderFlags(f) ==
    IF Len(f.value) < 8 THEN Panic(f, "index out of range")
    ELSE LET x == convert_be_u16(Slice(f.value, 6, 8))
         IN  IF x \div 16 # 0 THEN Panic(f, "unwrap on None: ObjectFlags::from_bits")
             ELSE [f EXCEPT !.header.flags = x, !.state = "ObjectHeaderObjectSize"]

ObjectHeaderObjectSize(f) == ObjU32(f, 8, "obj_size", "ProcessObjectData")

\* The hunk region value[64 .. 64 + obj_size] is decoded by parse_code and
\* the Result unwrapped.
ProcessObjectData(f) ==
    LET start == 64
        size  == f.header.obj_size
    IN  IF size > Len(f.value) \/ start + size > Len(f.value)
        THEN Panic(f, "index out of range")
        ELSE LET c == parse_code(Slice(f.value, start, start + size))
             IN  CASE c.outcome = "ok" ->
                        [f EXCEPT !.code_objects = c.hunks,
                                  !.state = "ObjectHeaderNameTableOffset"]
                   [] c.outcome = "err" -> Panic(f, "unwrap on Err: hunks")
                   [] OTHER -> Panic(f, c.why)

ObjectHeaderNameTableOffset(f) ==
    ObjU32(f, 12, "nametable_offset", "ObjectHeaderNameTableCount")

\* The count field x: header.num_names(x - 1) when x != 0.
ObjectHeaderNameTableCount(f) ==
    IF Len(f.value) < 20 THEN Panic(f, "index out of range")
    ELSE LET x == convert_be_u32(Slice(f.value, 16, 20))
         IN  IF x # 0
             THEN [f EXCEPT !.header.nametable_names = x - 1, !.state = "ProcessNameTable"]
             ELSE [f EXCEPT !.state = "ObjectHeaderSymTableOffset"]

ProcessNameTable(f) ==
    LET start == f.header.nametable_offset
    IN  IF start # 0
        THEN IF start > Len(f.value) THEN Panic(f, "index out of range")
             ELSE [f EXCEPT !.name_bytes = DropBytes(f.value, start),
                            !.remaining_names = f.header.nametable_names,
                            !.name_id = 1,
                            !.state = "ProcessName"]
        ELSE [f EXCEPT !.state = "ObjectHeaderSymTableOffset"]

\* CStr::from_bytes_until_nul: the index of the first 0 byte of s, or 0 when
\* s holds none (an Err).
FirstNul(s) ==
    IF \E i \in 1..Len(s) : s[i] = 0
    THEN CHOOSE i \in 1..Len(s) : s[i] = 0 /\ \A j \in 1..(i - 1) : s[j] # 0
    ELSE 0

\* One name entry: the two hash bytes are skipped, the string is read up to
\* its NUL from name_bytes[2 .. min(258, len)], the entry is pushed with the
\* running id, and the counter goes down by one.
ProcessName(f) ==
    IF Len(f.name_bytes) < 2 THEN Panic(f, "index out of range")
    ELSE LET len  == Len(f.name_bytes)
             win  == Slice(f.name_bytes, 2, IF len < 258 THEN len ELSE 258)
             nul  == FirstNul(win)
         IN  IF nul = 0 THEN Panic(f, "unwrap on Err: FromBytesUntilNulError")
             ELSE LET s            == SubSeq(win, 1, nul - 1)
                      end_of_entry == 2 + Len(s) + 1
                      g == [f EXCEPT !.name_bytes = DropBytes(f.name_bytes, end_of_entry),
                                     !.name_table = Append(f.name_table,
                                                           [id |-> f.name_id, name |-> s])]
                  IN  IF f.remaining_names = 0 /\ f.build = "debug"
                      THEN Panic(g, "attempt to subtract with overflow")
                      ELSE LET h == [g EXCEPT !.remaining_names = WrapSub1(f.remaining_names),
                                              !.name_id = f.name_id + 1]
                           IN  IF h.remaining_names # 0
                               THEN [h EXCEPT !.state = "ProcessName"]
                               ELSE [h EXCEPT !.state = "ObjectHeaderSymTableOffset"]

ObjectHeaderSymTableOffset(f) ==
    ObjU32(f, 20, "symtable_offset", "ObjectHeaderSymTableSize")

ObjectHeaderSymTableSize(f) == ObjU32(f, 24, "symtable_size", "ProcessSymbolTable")

\* ProcessSymbolTable without the test of the offset: the symbol table is
\* decoded also when symtable_offset is 0.
ProcessSymbolTable_DecodeAtOffsetZero(f) ==
    LET start == f.header.symtable_offset
        size  == f.header.symtable_size
    IN  IF start > Len(f.value) \/ size > Len(f.value) \/ start + size > Len(f.value)
        THEN Panic(f, "index out of range")
        ELSE LET s == parse_symtab(Slice(f.value, start, start + size))
             IN  CASE s.outcome = "ok" ->
                        [f EXCEPT !.symbol_table = [routines |-> s.routines,
                                                    types |-> s.type_table],
                                  !.state = "ObjectHeaderReserved1"]
                   [] s.outcome = "err" -> Panic(f, "unwrap on Err: symbol table")
                   [] OTHER -> Panic(f, s.why)

\* The symbol table value[symtable_offset .. symtable_offset + symtable_size]
\* is decoded by parse_symtab and the Result unwrapped; offset 0 means none.
ProcessSymbolTable(f) ==
    LET start == f.header.symtable_offset
        size  == f.header.symtable_size
    IN  IF start = 0 THEN [f EXCEPT !.state = "ObjectHeaderReserved1"]
        ELSE IF start > Len(f.value) \/ size > Len(f.value) \/ start + size > Len(f.value)
        THEN Panic(f, "index out of range")
        ELSE LET s == parse_symtab(Slice(f.value, start, start + size))
             IN  CASE s.outcome = "ok" ->
                        [f EXCEPT !.symbol_table = [routines |-> s.routines,
                                                    types |-> s.type_table],
                                  !.state = "ObjectHeaderReserved1"]
                   [] s.outcome = "err" -> Panic(f, "unwrap on Err: symbol table")
                   [] OTHER -> Panic(f, s.why)

\* A reserved u32 / u8 that must be 0.
ObjectHeaderReserved1(f) ==
    IF Len(f.value) < 32 THEN Panic(f, "index out of range")
    ELSE IF convert_be_u32(Slice(f.value, 28, 32)) # 0 THEN Fail(f, "ObjectHeaderReserved1 is not 0L")
    ELSE [f EXCEPT !.state = "ObjectHeaderCodeSize"]

\* The three size counters are stored in the header and compared with nothing.
ObjectHeaderCodeSize(f) == ObjU32(f, 32, "code_size", "ObjectHeaderUninitializedDataSize")

ObjectHeaderUninitializedDataSize(f) ==
    ObjU32(f, 36, "udata_size", "ObjectHeaderInitializedDataSize")

ObjectHeaderInitializedDataSize(f) ==
    ObjU32(f, 40, "idata_size", "ObjectHeaderCFM68kOldDefinitionVersion")

\* The three CFM68K version fields are read and dropped.
ObjSkipU32(f, a, next) ==
    IF Len(f.value) < a + 4 THEN Panic(f, "index out of range") ELSE [f EXCEPT !.state = next]

ObjectHeaderCFM68kOldDefinitionVersion(f) ==
    ObjSkipU32(f, 44, "ObjectHeaderCFM68kOldImplmentationVersion")

ObjectHeaderCFM68kOldImplmentationVersion(f) ==
    ObjSkipU32(f, 48, "ObjectHeaderCFM68kCurrentVersion")

ObjectHeaderCFM68kCurrentVersion(f) == ObjSkipU32(f, 52, "ObjectHeaderReservedHasFlags")

ObjectHeaderReservedHasFlags(f) == ObjU8(f, 56, "has_flags", "ObjectHeaderReservedIsPascal")

ObjectHeaderReservedIsPascal(f) ==
    ObjU8(f, 57, "is_pascal", "ObjectHeaderReservedIsFourByteInt")

ObjectHeaderReservedIsFourByteInt(f) ==
    ObjU8(f, 58, "is_fourbyteint", "ObjectHeaderReservedIsEightDouble")

ObjectHeaderReservedIsEightDouble(f) ==
    ObjU8(f, 59, "is_eightdouble", "ObjectHeaderReservedIsMC68881")

ObjectHeaderReservedIsMC68881(f) == ObjU8(f, 60, "is_mc68881", "ObjectHeaderReservedBaseReg")

ObjectHeaderReservedBaseReg(f) == ObjU8(f, 61, "basereg", "ObjectHeaderReserved3")

\* The Reserved3 state with the comparison left out.
ObjectHeaderReserved3_Unchecked(f) ==
    IF Len(f.value) <= 62 THEN Panic(f, "index out of range")
    ELSE [f EXCEPT !.state = "ObjectHeaderReserved4"]

ObjectHeaderReserved3(f) ==
    IF Len(f.value) <= 62 THEN Panic(f, "index out of range")
    ELSE IF f.value[63] # 0 THEN Fail(f, "ObjectHeaderReserved3 is not 0L")
    ELSE [f EXCEPT !.state = "ObjectHeaderReserved4"]

\* The last field; leaving the loop returns Ok(MetrowerksObject::new(..)).
ObjectHeaderReserved4(f) ==
    IF Len(f.value) <= 63 THEN Panic(f, "index out of range")
    ELSE IF f.value[64] # 0 THEN Fail(f, "ObjectHeaderReserved4 is not 0L")
    ELSE [f EXCEPT !.state = "End", !.outcome = "ok"]

(***************************************************************************)
(* parse_object run to its end, as Object::try_from gives it to a caller.  *)
(***************************************************************************)

\* One pass of the loop `while state != ObjectParseState::End`.
ObjStep(f) ==
    CASE f.state = "ObjectHeaderStart" -> ObjectHeaderStart(f)
      [] f.state = "ObjectHeaderMagicWord" -> ObjectHeaderMagicWord(f)
      [] f.state = "ObjectHeaderVersion" -> ObjectHeaderVersion(f)
      [] f.state = "ObjectHeaderFlags" -> ObjectHeaderFlags(f)
      [] f.state = "ObjectHeaderObjectSize" -> ObjectHeaderObjectSize(f)
      [] f.state = "ProcessObjectData" -> ProcessObjectData(f)
      [] f.state = "ObjectHeaderNameTableOffset" -> ObjectHeaderNameTableOffset(f)
      [] f.state = "ObjectHeaderNameTableCount" -> ObjectHeaderNameTableCount(f)
      [] f.state = "ProcessNameTable" -> ProcessNameTable(f)
      [] f.state = "ProcessName" -> ProcessName(f)
      [] f.state = "ObjectHeaderSymTableOffset" -> ObjectHeaderSymTableOffset(f)
      [] f.state = "ObjectHeaderSymTableSize" -> ObjectHeaderSymTableSize(f)
      [] f.state = "ProcessSymbolTable" -> ProcessSymbolTable(f)
      [] f.state = "ObjectHeaderReserved1" -> ObjectHeaderReserved1(f)
      [] f.state = "ObjectHeaderCodeSize" -> ObjectHeaderCodeSize(f)
      [] f.state = "ObjectHeaderUninitializedDataSize" -> ObjectHeaderUninitializedDataSize(f)
      [] f.state = "ObjectHeaderInitializedDataSize" -> ObjectHeaderInitializedDataSize(f)
      [] f.state = "ObjectHeaderCFM68kOldDefinitionVersion" -> ObjectHeaderCFM68kOldDefinitionVersion(f)
      [] f.state = "ObjectHeaderCFM68kOldImplmentationVersion" -> ObjectHeaderCFM68kOldImplmentationVersion(f)
      [] f.state = "ObjectHeaderCFM68kCurrentVersion" -> ObjectHeaderCFM68kCurrentVersion(f)
      [] f.state = "ObjectHeaderReservedHasFlags" -> ObjectHeaderReservedHasFlags(f)
      [] f.state = "ObjectHeaderReservedIsPascal" -> ObjectHeaderReservedIsPascal(f)
      [] f.state = "ObjectHeaderReservedIsFourByteInt" -> ObjectHeaderReservedIsFourByteInt(f)
      [] f.state = "ObjectHeaderReservedIsEightDouble" -> ObjectHeaderReservedIsEightDouble(f)
      [] f.state = "ObjectHeaderReservedIsMC68881" -> ObjectHeaderReservedIsMC68881(f)
      [] f.state = "ObjectHeaderReservedBaseReg" -> ObjectHeaderReservedBaseReg(f)
      [] f.state = "ObjectHeaderReserved3" -> ObjectHeaderReserved3(f)
      [] f.state = "ObjectHeaderReserved4" -> ObjectHeaderReserved4(f)

RECURSIVE RunObj(_)
RunObj(f) == IF f.outcome # "running" THEN f ELSE RunObj(ObjStep(f))

\* parse_object(value), run to its end.
parse_object(value, build) == RunObj(ObjFrame(value, build))

(***************************************************************************)
(* Input object buffers.  An object is laid out as its 64-byte header, the *)
(* hunk region, the name table and the symbol table; the decoder above     *)
(* sees only the bytes.                                                    *)
(***************************************************************************)

MaxNames == 2     \* most entries written into a generated name table

\* The i-byte name "a", "ab", "abc", ..
NameOf(i) == [j \in 1..i |-> 96 + j]

\* One on-disk name entry: u16 hash, the string, NUL.
NameEntryBytes(name, hash) == BE16(hash) \o name \o <<0>>

\* A name table of k entries; entry `bad` (if any) carries a hash that is
\* not the hash of its string.
NameTableBytes(k, bad) ==
    Concat([i \in 1..k |->
              NameEntryBytes(NameOf(i),
                             IF i = bad THEN (nametable_hash(NameOf(i)) + 1) % NAMEHASH
                             ELSE nametable_hash(NameOf(i)))])

\* The 32-byte symbol-table header.
SymHeaderBytes(type_offset, num_types) ==
    <<83, 89, 77, 72>> \o BE32(type_offset) \o BE32(num_types) \o BE32(0) \o Zeros(16)

\* One local variable: name 1, type BasicTypeLong, kind Local, class A6, at 8.
LocalVarBytes == BE32(1) \o BE32(3) \o <<0, 2>> \o BE32(8)

\* One routine: its type, nstmt statement locations, the end-of-list pair,
\* the count of locals and the locals.
RoutineBytes(typ, nstmt, nlocals) ==
    BE16(typ) \o Concat([i \in 1..nstmt |-> BE32(2 * i) \o BE32(10 * i)])
    \o <<255, 255, 255, 255>> \o BE32(0)
    \o BE16(nlocals) \o Concat([i \in 1..nlocals |-> LocalVarBytes])

\* The symbol tables objects are generated with, by name.
SymTabBytes ==
    [none        |-> <<>>,
     header      |-> SymHeaderBytes(0, 0),
     routine     |-> SymHeaderBytes(0, 0) \o RoutineBytes(1, 1, 1),
     badmagic    |-> <<83, 89, 77, 0>> \o Zeros(28),
     badroutine  |-> SymHeaderBytes(0, 0) \o BE16(2),
     short       |-> <<83, 89, 77, 72>>,
     pointer     |-> SymHeaderBytes(32, 1) \o BE16(0) \o BE32(200) \o BE16(1) \o BE32(3),
     enumbadbase |-> SymHeaderBytes(32, 1) \o BE16(3) \o BE32(200) \o BE32(1) \o BE16(50) \o BE16(0),
     pascalenum  |-> SymHeaderBytes(32, 1) \o BE16(7) \o BE32(200) \o BE32(1) \o BE32(0),
     badtypetag  |-> SymHeaderBytes(32, 1) \o BE16(9) \o BE32(200)]

\* The hunk regions objects are generated with.
ObjStreams ==
    {<<"HUNK_START", "HUNK_END">>,
     <<"HUNK_START", "HUNK_GLOBAL_CODE", "HUNK_END">>,
     <<"HUNK_START", "HUNK_LOCAL_CODE", "HUNK_GLOBAL_IDATA", "HUNK_LOCAL_UDATA", "HUNK_END">>,
     <<"HUNK_START", "HUNK_FORCE_ACTIVE">>,
     <<"HUNK_START", "HUNK_LIBRARY_BREAK">>,
     <<>>}

\* How many records of a stream have their raw type in `tags`.
CountRaws(raws, tags) == Cardinality({i \in 1..Len(raws) : raws[i] \in tags})

CodeTags == {"HUNK_LOCAL_CODE", "HUNK_GLOBAL_CODE"}

UninitializedDataTags ==
    {"HUNK_GLOBAL_UDATA", "HUNK_LOCAL_UDATA", "HUNK_GLOBAL_FARUDATA", "HUNK_LOCAL_FARUDATA"}

\* The object buffer described by d.
ObjectBytes(d) ==
    LET code   == StreamOf(d.raws, d.p)
        nt     == NameTableBytes(d.k, d.bad)
        sym    == SymTabBytes[d.sym]
        ntoff  == IF d.ntzero THEN 0 ELSE 64 + Len(code)
        symoff == IF sym = <<>> \/ d.symzero THEN 0 ELSE 64 + Len(code) + Len(nt)
        all    == (IF d.magic THEN <<254, 237, 190, 173>> ELSE <<254, 237, 190, 174>>)
                  \o BE16(d.version) \o BE16(d.flags) \o BE32(Len(code))
                  \o BE32(ntoff) \o BE32(d.c) \o BE32(symoff) \o BE32(Len(sym) + d.symextra)
                  \o BE32(d.reserved1)
                  \o BE32(d.p * CountRaws(d.raws, CodeTags) + d.dc)
                  \o BE32(d.p * CountRaws(d.raws, UninitializedDataTags) + d.du)
                  \o BE32(d.p * CountRaws(d.raws, InitializedDataTags) + d.di)
                  \o BE32(0) \o BE32(0) \o BE32(0)
                  \o <<1, 0, 1, 1, 0, 5, d.r3, d.r4>>
                  \o code \o nt \o sym
    IN  IF d.cut THEN SubSeq(all, 1, 63) ELSE all

\* A well-formed object: Start, GlobalCode, End; MaxNames names; one routine.
BaseObject ==
    [magic |-> TRUE, version |-> 0, flags |-> 1,
     raws |-> <<"HUNK_START", "HUNK_GLOBAL_CODE", "HUNK_END">>, p |-> MaxPayload,
     dc |-> 0, du |-> 0, di |-> 0,
     ntzero |-> FALSE, k |-> MaxNames, c |-> MaxNames + 1, bad |-> 0,
     sym |-> "routine", symzero |-> FALSE, symextra |-> 0, reserved1 |-> 0, r3 |-> 0, r4 |-> 0, cut |-> FALSE]

\* The objects the decoder is run on: the well-formed one with its hunk
\* region and size counters varied, with its name table varied (count field,
\* entries written, a wrong hash, offset 0), with each symbol table, with
\* each header fault, with its reserved fields varied over each hunk
\* region, and with symbol-table offset 0 beside each symbol-table size.
ObjectDescs ==
    {[BaseObject EXCEPT !.raws = raws, !.p = p, !.dc = d[1], !.du = d[2], !.di = d[3]] :
        raws \in ObjStreams, p \in 0..MaxPayload,
        d \in {<<0, 0, 0>>, <<1, 0, 0>>, <<0, 1, 0>>, <<0, 0, 1>>}}
    \cup {[BaseObject EXCEPT !.k = k, !.c = c, !.bad = bad, !.ntzero = z, !.sym = s] :
            k \in 0..MaxNames, c \in 0..(MaxNames + 2), bad \in 0..MaxNames,
            z \in BOOLEAN, s \in {"none", "routine"}}
    \cup {[BaseObject EXCEPT !.sym = s] : s \in DOMAIN SymTabBytes}
    \cup {[BaseObject EXCEPT !.magic = FALSE], [BaseObject EXCEPT !.version = 1],
          [BaseObject EXCEPT !.flags = 0], [BaseObject EXCEPT !.flags = 16],
          [BaseObject EXCEPT !.reserved1 = 1], [BaseObject EXCEPT !.r3 = 1],
          [BaseObject EXCEPT !.r4 = 1], [BaseObject EXCEPT !.cut = TRUE]}
    \cup {[BaseObject EXCEPT !.raws = raws, !.reserved1 = a, !.r3 = b, !.r4 = c] :
            raws \in ObjStreams, a \in {0, 1, 16777216}, b \in {0, 128}, c \in {0, 255}}
    \cup {[BaseObject EXCEPT !.sym = s, !.symzero = TRUE, !.symextra = x] :
            s \in {"none", "routine", "badmagic"}, x \in {0, 1, 16777216}}

\* Whether the decoder was built with integer-overflow checks.
Builds == {"debug", "release"}

(***************************************************************************)
(* SpecObj: parse_object run on each input object.                         *)
(***************************************************************************)

ObjInit ==
    /\ objp \in {ObjFrame(ObjectBytes(d), b) : d \in ObjectDescs, b \in Builds}
    /\ hunkp = Idle
    /\ libp = Idle
    /\ symp = Idle
    /\ typep = Idle
    /\ timep = Idle
    /\ hashp = Idle
    /\ oncep = Idle
    /\ lookp = Idle

\* parse_object takes the pass of its loop for state st, giving frame next.
ObjPass(st, next) ==
    /\ objp.outcome = "running"
    /\ objp.state = st
    /\ objp' = next
    /\ UNCHANGED <<hunkp, libp, symp, typep, timep, hashp, oncep, lookp>>

ObjNext ==
    \/ ObjPass("ObjectHeaderStart", ObjectHeaderStart(objp))
    \/ ObjPass("ObjectHeaderMagicWord", ObjectHeaderMagicWord(objp))
    \/ ObjPass("ObjectHeaderVersion", ObjectHeaderVersion(objp))
    \/ ObjPass("ObjectHeaderFlags", ObjectHeaderFlags(objp))
    \/ ObjPass("ObjectHeaderObjectSize", ObjectHeaderObjectSize(objp))
    \/ ObjPass("ProcessObjectData", ProcessObjectData(objp))
    \/ ObjPass("ObjectHeaderNameTableOffset", ObjectHeaderNameTableOffset(objp))
    \/ ObjPass("ObjectHeaderNameTableCount", ObjectHeaderNameTableCount(objp))
    \/ ObjPass("ProcessNameTable", ProcessNameTable(objp))
    \/ ObjPass("ProcessName", ProcessName(objp))
    \/ ObjPass("ObjectHeaderSymTableOffset", ObjectHeaderSymTableOffset(objp))
    \/ ObjPass("ObjectHeaderSymTableSize", ObjectHeaderSymTableSize(objp))
    \/ ObjPass("ProcessSymbolTable", ProcessSymbolTable(objp))
    \/ ObjPass("ObjectHeaderReserved1", ObjectHeaderReserved1(objp))
    \/ ObjPass("ObjectHeaderCodeSize", ObjectHeaderCodeSize(objp))
    \/ ObjPass("ObjectHeaderUninitializedDataSize", ObjectHeaderUninitializedDataSize(objp))
    \/ ObjPass("ObjectHeaderInitializedDataSize", ObjectHeaderInitializedDataSize(objp))
    \/ ObjPass("ObjectHeaderCFM68kOldDefinitionVersion",
               ObjectHeaderCFM68kOldDefinitionVersion(objp))
    \/ ObjPass("ObjectHeaderCFM68kOldImplmentationVersion",
               ObjectHeaderCFM68kOldImplmentationVersion(objp))
    \/ ObjPass("ObjectHeaderCFM68kCurrentVersion", ObjectHeaderCFM68kCurrentVersion(objp))
    \/ ObjPass("ObjectHeaderReservedHasFlags", ObjectHeaderReservedHasFlags(objp))
    \/ ObjPass("ObjectHeaderReservedIsPascal", ObjectHeaderReservedIsPascal(objp))
    \/ ObjPass("ObjectHeaderReservedIsFourByteInt", ObjectHeaderReservedIsFourByteInt(objp))
    \/ ObjPass("ObjectHeaderReservedIsEightDouble", ObjectHeaderReservedIsEightDouble(objp))
    \/ ObjPass("ObjectHeaderReservedIsMC68881", ObjectHeaderReservedIsMC68881(objp))
    \/ ObjPass("ObjectHeaderReservedBaseReg", ObjectHeaderReservedBaseReg(objp))
    \/ ObjPass("ObjectHeaderReserved3", ObjectHeaderReserved3(objp))
    \/ ObjPass("ObjectHeaderReserved4", ObjectHeaderReserved4(objp))

SpecObj == ObjInit /\ [][ObjNext]_vars

(***************************************************************************)
(* The library decoder: parse_library (mwob_library.rs).                   *)
(***************************************************************************)

\* FileHeader::new().
NoFileHeader ==
    [moddate |-> 0, filename |-> <<>>, fullpathname |-> <<>>,
     object_start |-> 0, object_size |-> 0]

\* parse_library on entry: the descriptor cursor `offset` starts at 28.
LibFrame(value, build) ==
    [value |-> value, build |-> build, state |-> "LibraryHeaderStart",
     header |-> [proc |-> "Unknown", flags |-> "None", version |-> 0,
                 code_size |-> 0, data_size |-> 0, num_object_files |-> 0],
     files |-> <<>>, curr_file_header |-> NoFileHeader, curr_file_data |-> <<>>,
     remaining_files |-> 0, offset |-> 28, outcome |-> "running", why |-> "-"]

\* A u32 header field read at value[a..a+4] and stored, then on to `next`.
LibU32(f, a, field, next) ==
    IF Len(f.value) < a + 4 THEN Panic(f, "index out of range")
    ELSE [f EXCEPT !.header[field] = convert_be_u32(Slice(f.value, a, a + 4)),
                   !.state = next]

\* A u32 descriptor field read at value[offset..offset+4] and stored; the
\* cursor moves on by 4.
FileU32(f, field, next) ==
    IF Len(f.value) < f.offset + 4 THEN Panic(f, "index out of range")
    ELSE [f EXCEPT !.curr_file_header[field] =
                        convert_be_u32(Slice(f.value, f.offset, f.offset + 4)),
                   !.offset = f.offset + 4,
                   !.state = next]

\* CStr::from_bytes_until_nul(&value[x..]).unwrap(): the string, or a panic
\* when x is past the end or no NUL follows.
CStrAt(f, x) ==
    IF x > Len(f.value) THEN [ok |-> FALSE, s |-> <<>>, why |-> "index out of range"]
    ELSE LET rest == DropBytes(f.value, x)
             nul  == FirstNul(rest)
         IN  IF nul = 0
             THEN [ok |-> FALSE, s |-> <<>>, why |-> "unwrap on Err: FromBytesUntilNulError"]
             ELSE [ok |-> TRUE, s |-> SubSeq(rest, 1, nul - 1), why |-> "-"]

LibraryHeaderStart(f) == [f EXCEPT !.state = "LibraryHeaderMagicWord"]

\* LibraryMagicWord = 0x4d574f42.
LibraryHeaderMagicWord(f) ==
    IF Len(f.value) < 4 THEN Panic(f, "index out of range")
    ELSE IF ~WordIs(Slice(f.value, 0, 4), <<77, 87, 79, 66>>) THEN Fail(f, "Bad Magic Word")
    ELSE [f EXCEPT !.state = "LibraryHeaderProc"]

\* LibraryProcessor::from: M68k = 0x4d36384b, PowerPC = 0x50504320, else Unknown.
LibraryHeaderProc(f) ==
    IF Len(f.value) < 8 THEN Panic(f, "index out of range")
    ELSE LET w == Slice(f.value, 4, 8)
         IN  [f EXCEPT !.header.proc = CASE WordIs(w, <<77, 54, 56, 75>>) -> "M68k"
                                         [] WordIs(w, <<80, 80, 67, 32>>) -> "PowerPC"
                                         [] OTHER -> "Unknown",
                       !.state = "LibraryHeaderFlags"]

\* The flags word value[8..12] is not read.
LibraryHeaderFlags(f) ==
    [f EXCEPT !.header.flags = "None", !.state = "LibraryHeaderVersion"]

LibraryHeaderVersion(f) == LibU32(f, 12, "version", "LibraryHeaderCodeSize")

LibraryHeaderCodeSize(f) == LibU32(f, 16, "code_size", "LibraryHeaderDataSize")

LibraryHeaderDataSize(f) == LibU32(f, 20, "data_size", "LibraryHeaderNumObjFiles")

\* The count of members; the next state is FileStart whatever the count.
LibraryHeaderNumObjFiles(f) ==
    IF Len(f.value) < 28 THEN Panic(f, "index out of range")
    ELSE LET x == convert_be_u32(Slice(f.value, 24, 28))
         IN  [f EXCEPT !.header.num_object_files = x, !.remaining_files = x,
                       !.state = "FileStart"]

FileStart(f) ==
    [f EXCEPT !.curr_file_header = NoFileHeader, !.curr_file_data = <<>>,
              !.state = "FileHeaderModDate"]

FileHeaderModDate(f) == FileU32(f, "moddate", "FileHeaderFileName")

FileHeaderFileName(f) ==
    IF Len(f.value) < f.offset + 4 THEN Panic(f, "index out of range")
    ELSE LET x == convert_be_u32(Slice(f.value, f.offset, f.offset + 4))
             c == CStrAt(f, x)
         IN  IF ~c.ok THEN Panic(f, c.why)
             ELSE [f EXCEPT !.curr_file_header.filename = c.s,
                            !.offset = f.offset + 4,
                            !.state = "FileHeaderFullPathName"]

\* A path pointer of 0 is the empty path.
FileHeaderFullPathName(f) ==
    IF Len(f.value) < f.offset + 4 THEN Panic(f, "index out of range")
    ELSE LET x == convert_be_u32(Slice(f.value, f.offset, f.offset + 4))
             c == IF x = 0 THEN [ok |-> TRUE, s |-> <<>>, why |-> "-"] ELSE CStrAt(f, x)
         IN  IF ~c.ok THEN Panic(f, c.why)
             ELSE [f EXCEPT !.curr_file_header.fullpathname = c.s,
                            !.offset = f.offset + 4,
                            !.state = "FileHeaderObjStart"]

FileHeaderObjStart(f) == FileU32(f, "object_start", "FileHeaderObjSize")

FileHeaderObjSize(f) == FileU32(f, "object_size", "FileDataBytes")

\* FileDataBytes with the member's last byte left out of the slice.
FileDataBytes_OneByteShort(f) ==
    LET start == f.curr_file_header.object_start
        size  == f.curr_file_header.object_size
    IN  IF start > Len(f.value) \/ size > Len(f.value) \/ start + size > Len(f.value)
        THEN Panic(f, "index out of range")
        ELSE [f EXCEPT !.curr_file_data =
                            Slice(f.value, start, start + (IF size = 0 THEN 0 ELSE size - 1)),
                       !.offset = f.offset + size,
                       !.state = "FileCommit"]

\* The member bytes value[object_start .. object_start + object_size]; then
\* the descriptor cursor is moved on by the member's length.  (A start or a
\* size beyond the buffer panics in every build: the u32 sum either
\* overflows, or wraps below start, or is past the end.)
FileDataBytes(f) ==
    LET start == f.curr_file_header.object_start
        size  == f.curr_file_header.object_size
    IN  IF start > Len(f.value) \/ size > Len(f.value) \/ start + size > Len(f.value)
        THEN Panic(f, "index out of range")
        ELSE [f EXCEPT !.curr_file_data = Slice(f.value, start, start + size),
                       !.offset = f.offset + size,
                       !.state = "FileCommit"]

\* Push the member and count down; the u32 counter is decremented before it
\* is compared with 0.
FileCommit(f) ==
    LET g == [f EXCEPT !.files = Append(f.files, [header |-> f.curr_file_header,
                                                  data |-> f.curr_file_data])]
    IN  IF f.remaining_files = 0 /\ f.build = "debug"
        THEN Panic(g, "attempt to subtract with overflow")
        ELSE LET h == [g EXCEPT !.remaining_files = WrapSub1(f.remaining_files)]
             IN  IF h.remaining_files = 0
                 THEN [h EXCEPT !.state = "End", !.outcome = "ok"]
                 ELSE [h EXCEPT !.state = "FileStart"]

(***************************************************************************)
(* Input library buffers: the 28-byte header, the 20-byte descriptors one  *)
(* after another, the file names, then the members' bytes.                 *)
(***************************************************************************)

MaxFiles == 2     \* most descriptors written into a generated library
MaxMember == 1    \* most bytes of a generated member

\* The bytes of member i when it is s bytes long.
MemberBytes(i, s) == [j \in 1..s |-> 16 * i + j]

\* The sum of the first i entries of a sequence of numbers.
RECURSIVE SumTo(_, _)
SumTo(sizes, i) == IF i = 0 THEN 0 ELSE sizes[i] + SumTo(sizes, i - 1)

\* The bytes of member i of the library described by d: a well-formed object
\* when d.obj, else d.sizes[i] arbitrary bytes.
MemberOf(d, i) ==
    IF d.obj THEN ObjectBytes(BaseObject) ELSE MemberBytes(i, d.sizes[i])

\* The library buffer described by d: d.n is the header's count, d.sizes has
\* one entry for each member whose descriptor is written.
LibraryBytes(d) ==
    LET m       == Len(d.sizes)
        sizes   == [i \in 1..m |-> Len(MemberOf(d, i))]
        names   == Concat([i \in 1..m |-> NameOf(i) \o <<0>>])
        nameAt  == [i \in 1..m |-> 28 + 20 * m + ((i * (i - 1)) \div 2) + (i - 1)]
        dataAt  == [i \in 1..m |-> 28 + 20 * m + Len(names) + SumTo(sizes, i - 1)]
        descs   == Concat([i \in 1..m |->
                             BE32(1000 + i) \o BE32(nameAt[i])
                             \o BE32(IF d.path THEN nameAt[i] ELSE 0)
                             \o BE32(dataAt[i]) \o BE32(sizes[i])])
        members == Concat([i \in 1..m |-> MemberOf(d, i)])
        all     == (IF d.magic THEN <<77, 87, 79, 66>> ELSE <<77, 87, 79, 67>>)
                   \o d.proc \o BE32(d.flags) \o BE32(d.version) \o BE32(0) \o BE32(0) \o BE32(d.n)
                   \o descs \o names \o members
    IN  IF d.cut THEN SubSeq(all, 1, Len(all) - 1) ELSE all

\* The libraries whose members are object buffers, one descriptor for each
\* member the header counts.
ObjectLibraryDescs ==
    {[magic |-> TRUE, proc |-> <<77, 54, 56, 75>>, flags |-> 0, version |-> 2, n |-> m,
      sizes |-> [i \in 1..m |-> 0], obj |-> TRUE, path |-> path, cut |-> FALSE] :
        m \in 1..MaxFiles, path \in BOOLEAN}

\* The libraries the decoder is run on: every count field against every list
\* of written members, the header faults (each processor with each flags
\* word and version), and the libraries of objects.
LibraryDescs ==
    {[magic |-> mg, proc |-> <<77, 54, 56, 75>>, flags |-> 0, version |-> 2, n |-> n,
      sizes |-> sizes,
      obj |-> FALSE, path |-> path, cut |-> cut] :
        mg \in BOOLEAN, n \in 0..(MaxFiles + 1), sizes \in SeqsUpTo(0..MaxMember, MaxFiles),
        path \in BOOLEAN, cut \in BOOLEAN}
    \cup {[magic |-> TRUE, proc |-> pr, flags |-> fl, version |-> v, n |-> 1,
           sizes |-> <<MaxMember>>, obj |-> FALSE, path |-> FALSE, cut |-> FALSE] :
            pr \in {<<77, 54, 56, 75>>, <<80, 80, 67, 32>>, <<0, 0, 0, 0>>},
            fl \in {0, 1, 16777216}, v \in 0..3}
    \cup ObjectLibraryDescs

(***************************************************************************)
(* SpecLib: parse_library run on each input library.                       *)
(***************************************************************************)

LibInit ==
    /\ libp \in {LibFrame(LibraryBytes(d), b) : d \in LibraryDescs, b \in Builds}
    /\ hunkp = Idle
    /\ objp = Idle
    /\ symp = Idle
    /\ typep = Idle
    /\ timep = Idle
    /\ hashp = Idle
    /\ oncep = Idle
    /\ lookp = Idle

\* parse_library takes the pass of its loop for state st, giving frame next.
LibPass(st, next) ==
    /\ libp.outcome = "running"
    /\ libp.state = st
    /\ libp' = next
    /\ UNCHANGED <<hunkp, objp, symp, typep, timep, hashp, oncep, lookp>>

LibNext ==
    \/ LibPass("LibraryHeaderStart", LibraryHeaderStart(libp))
    \/ LibPass("LibraryHeaderMagicWord", LibraryHeaderMagicWord(libp))
    \/ LibPass("LibraryHeaderProc", LibraryHeaderProc(libp))
    \/ LibPass("LibraryHeaderFlags", LibraryHeaderFlags(libp))
    \/ LibPass("LibraryHeaderVersion", LibraryHeaderVersion(libp))
    \/ LibPass("LibraryHeaderCodeSize", LibraryHeaderCodeSize(libp))
    \/ LibPass("LibraryHeaderDataSize", LibraryHeaderDataSize(libp))
    \/ LibPass("LibraryHeaderNumObjFiles", LibraryHeaderNumObjFiles(libp))
    \/ LibPass("FileStart", FileStart(libp))
    \/ LibPass("FileHeaderModDate", FileHeaderModDate(libp))
    \/ LibPass("FileHeaderFileName", FileHeaderFileName(libp))
    \/ LibPass("FileHeaderFullPathName", FileHeaderFullPathName(libp))
    \/ LibPass("FileHeaderObjStart", FileHeaderObjStart(libp))
    \/ LibPass("FileHeaderObjSize", FileHeaderObjSize(libp))
    \/ LibPass("FileDataBytes", FileDataBytes(libp))
    \/ LibPass("FileCommit", FileCommit(libp))

SpecLib == LibInit /\ [][LibNext]_vars


\* parse_library runs its loop to the end: a pass that can be taken is taken.
SpecLibFair == LibInit /\ [][LibNext]_vars /\ WF_vars(LibNext)
(***************************************************************************)
(* Input symbol tables: the 32-byte header, the routine records one after  *)
(* another and, when the header names one, the type table behind them.     *)
(***************************************************************************)

MaxRoutines == 2   \* most routine records written into a generated table
MaxStmts == 1      \* most statement locations of a routine before the end pair
MaxLocals == 2     \* most local variables of a generated routine

\* The routine records of a table: record i has r[i].nstmt statement
\* locations and r[i].nlocals locals, and is a Procedure or a Function in turn.
RoutineRegion(r) ==
    Concat([i \in 1..Len(r) |-> RoutineBytes(i % 2, r[i].nstmt, r[i].nlocals)])

\* One type-table record: a Pointer with id 200 to BasicTypeLong.
PointerTypeBytes == BE16(0) \o BE32(200) \o BE16(1) \o BE32(3)

\* The symbol table described by d.  d.types says what the header holds:
\*   "none"   type_offset 0;
\*   "after"  type_offset at the end of the routines, one type record there;
\*   "empty"  type_offset at the end of the routines, num_types 0;
\*   "stray"  type_offset 33, num_types 0.
SymTabOf(d) ==
    LET region == RoutineRegion(d.routines)
        toff   == CASE d.types = "none" -> 0
                    [] d.types = "stray" -> 33
                    [] OTHER -> 32 + Len(region)
        ntypes == IF d.types = "after" THEN 1 ELSE 0
        table  == IF d.types = "after" THEN PointerTypeBytes ELSE <<>>
        all    == (IF d.fault = "magic" THEN <<83, 89, 77, 0>> ELSE <<83, 89, 77, 72>>)
                  \o BE32(toff) \o BE32(ntypes) \o BE32(0) \o Zeros(16)
                  \o region
                  \o (IF d.fault = "routinetype" THEN BE16(2) ELSE <<>>)
                  \o table
    IN  Truncate(all, d.fault = "cut")

\* The symbol tables the decoder is run on: every list of routine records
\* with every header, and the faults on the tables without types.
SymTabDescs ==
    {[routines |-> r, types |-> t, fault |-> "none"] :
        r \in SeqsUpTo([nstmt : 0..MaxStmts, nlocals : 0..MaxLocals], MaxRoutines),
        t \in {"none", "after", "empty", "stray"}}
    \cup {[routines |-> r, types |-> "none", fault |-> x] :
            r \in SeqsUpTo([nstmt : 0..MaxStmts, nlocals : 1..MaxLocals], MaxRoutines),
            x \in {"cut", "magic", "routinetype"}}

(***************************************************************************)
(* SpecSym: parse_symtab run on each input symbol table.                   *)
(***************************************************************************)

SymInit ==
    /\ symp \in {SymFrame(SymTabOf(d)) : d \in SymTabDescs}
    /\ hunkp = Idle
    /\ objp = Idle
    /\ libp = Idle
    /\ typep = Idle
    /\ timep = Idle
    /\ hashp = Idle
    /\ oncep = Idle
    /\ lookp = Idle

\* parse_symtab takes the pass of its loop for state st, giving frame next.
SymPass(st, next) ==
    /\ symp.outcome = "running"
    /\ symp.state = st
    /\ symp' = next
    /\ UNCHANGED <<hunkp, objp, libp, typep, timep, hashp, oncep, lookp>>

SymNext ==
    \/ SymPass("SymTabHeaderStart", SymTabHeaderStart(symp))
    \/ SymPass("SymTabHeaderMagicWord", SymTabHeaderMagicWord(symp))
    \/ SymPass("SymTabHeaderTypeOffset", SymTabHeaderTypeOffset(symp))
    \/ SymPass("SymTabHeaderTypes", SymTabHeaderTypes(symp))
    \/ SymPass("SymTabHeaderUnnamed", SymTabHeaderUnnamed(symp))
    \/ SymPass("ProcessTypeTableStart", ProcessTypeTableStart(symp))
    \/ SymPass("SymTabHeaderReserved", SymTabHeaderReserved(symp))
    \/ SymPass("ProcessRoutineTableStart", ProcessRoutineTableStart(symp))
    \/ SymPass("ProcessRoutineStart", ProcessRoutineStart(symp))
    \/ SymPass("ProcessRoutineProcFunc", ProcessRoutineProcFunc(symp))
    \/ SymPass("ProcessRoutineStatementList", ProcessRoutineStatementList(symp))
    \/ SymPass("ProcessRoutineLocalVarsStart", ProcessRoutineLocalVarsStart(symp))
    \/ SymPass("ProcessRoutineLocalVars", ProcessRoutineLocalVars(symp))

SpecSym == SymInit /\ [][SymNext]_vars

(***************************************************************************)
(* Input type tables: type records one after another.  Record i carries    *)
(* the id 200 + i.                                                         *)
(***************************************************************************)

MaxTypes == 2     \* most records written into a generated type table

\* The kinds of record written, with the u16 tag and the bytes that follow
\* the id: a Struct and an Enum with no member and with one, Enums whose
\* base type is at and next to each end of the two ranges of basic types
\* or far from them, a PascalEnum with no member and with one
\* (the count in the upper half of its u32 field), and a tag that is no
\* RawOtherDataType.
TypeRecordKinds ==
    [pointer      |-> [tag |-> 0, body |-> BE16(1) \o BE32(3)],
     array        |-> [tag |-> 1, body |-> BE32(4) \o BE32(3) \o BE32(8)],
     struct0      |-> [tag |-> 2, body |-> BE32(1) \o BE32(0) \o BE16(0)],
     struct1      |-> [tag |-> 2, body |-> BE32(1) \o BE32(4) \o BE16(1)
                                           \o BE32(2) \o BE32(3) \o BE32(0)],
     enum0        |-> [tag |-> 3, body |-> BE32(1) \o BE16(3) \o BE16(0)],
     enum1        |-> [tag |-> 3, body |-> BE32(1) \o BE16(3) \o BE16(1) \o BE32(2) \o BE32(7)],
     enumbad      |-> [tag |-> 3, body |-> BE32(1) \o BE16(50) \o BE16(0)],
     enumbad1     |-> [tag |-> 3, body |-> BE32(1) \o BE16(200) \o BE16(1) \o BE32(2) \o BE32(7)],
     enum17       |-> [tag |-> 3, body |-> BE32(1) \o BE16(17) \o BE16(0)],
     enum18       |-> [tag |-> 3, body |-> BE32(1) \o BE16(18) \o BE16(1) \o BE32(2) \o BE32(7)],
     enum99       |-> [tag |-> 3, body |-> BE32(1) \o BE16(99) \o BE16(0)],
     enum100      |-> [tag |-> 3, body |-> BE32(1) \o BE16(100) \o BE16(1) \o BE32(2) \o BE32(7)],
     enum108      |-> [tag |-> 3, body |-> BE32(1) \o BE16(108) \o BE16(0)],
     enum109      |-> [tag |-> 3, body |-> BE32(1) \o BE16(109) \o BE16(0)],
     pascalarray  |-> [tag |-> 4, body |-> Zeros(20)],
     range        |-> [tag |-> 5, body |-> Zeros(20)],
     set          |-> [tag |-> 6, body |-> Zeros(12)],
     pascalenum   |-> [tag |-> 7, body |-> BE32(1) \o BE32(0)],
     pascalenum1  |-> [tag |-> 7, body |-> BE32(1) \o BE16(1) \o BE16(0) \o BE32(2)],
     pascalstring |-> [tag |-> 8, body |-> Zeros(8)],
     badtag       |-> [tag |-> 9, body |-> <<>>]]

\* Record i of a table, of kind k.
TypeRecordBytes(k, i) ==
    BE16(TypeRecordKinds[k].tag) \o BE32(200 + i) \o TypeRecordKinds[k].body

\* The type-table slice holding the records of kinds ks.
TypeTableBytes(ks) == Concat([i \in 1..Len(ks) |-> TypeRecordBytes(ks[i], i)])

\* The inputs the decoder is run on: every list of records, whole or cut
\* short by a byte, against every expected count.
TypeInputs ==
    {[data |-> Truncate(TypeTableBytes(ks), cut), num_types |-> n] :
        ks \in SeqsUpTo(DOMAIN TypeRecordKinds, MaxTypes), cut \in BOOLEAN,
        n \in 0..(MaxTypes + 1)}

(***************************************************************************)
(* SpecTypes: TypeTable::try_from run on each input.                       *)
(***************************************************************************)

TypeInit ==
    /\ typep \in {TypeFrame(i.data, i.num_types) : i \in TypeInputs}
    /\ hunkp = Idle
    /\ objp = Idle
    /\ libp = Idle
    /\ symp = Idle
    /\ timep = Idle
    /\ hashp = Idle
    /\ oncep = Idle
    /\ lookp = Idle

\* TypeTable::try_from takes the pass of its loop for state st, giving frame next.
TypePass(st, next) ==
    /\ typep.outcome = "running"
    /\ typep.state = st
    /\ typep' = next
    /\ UNCHANGED <<hunkp, objp, libp, symp, timep, hashp, oncep, lookp>>

TypeNext ==
    \/ TypePass("ParseTag", TypeParseTag(typep))
    \/ TypePass("ParsePointer", ParsePointer(typep))
    \/ TypePass("ParseArray", ParseArray(typep))
    \/ TypePass("ParseStruct", ParseStruct(typep))
    \/ TypePass("ParseEnum", ParseEnum(typep))
    \/ TypePass("ParsePascalArray", ParsePascalArray(typep))
    \/ TypePass("ParseRange", ParseRange(typep))
    \/ TypePass("ParseSet", ParseSet(typep))
    \/ TypePass("ParsePascalEnum", ParsePascalEnum(typep))
    \/ TypePass("ParsePascalString", ParsePascalString(typep))
    \/ TypePass("CommitType", CommitType(typep))

SpecTypes == TypeInit /\ [][TypeNext]_vars

(***************************************************************************)
(* The Mac-epoch conversions: get_offset, from_mac_datetime and            *)
(* to_mac_datetime (util.rs).  An i64 count of seconds is kept as the two  *)
(* limbs hi * 2^16 + lo with 0 <= lo < 2^16, so that u32 dates up to       *)
(* 2^32 - 1 and their sums with the offset are exact.                      *)
(***************************************************************************)

\* The value h * 2^16 + l in limbs.
Wide(h, l) == [hi |-> h + (l \div 65536), lo |-> l % 65536]

WideAdd(a, b) == Wide(a.hi + b.hi, a.lo + b.lo)

WideSub(a, b) == Wide(a.hi - b.hi, a.lo - b.lo)

\* `x as u32`: the low 32 bits.
as_u32(a) == [hi |-> a.hi % 65536, lo |-> a.lo]

\* The closure of get_offset: the Unix timestamp of 1904-01-01 00:00:00 in
\* the local zone, whose offset from UTC is utc_offset seconds east, without
\* its sign.  (1904-01-01 00:00:00 UTC is 2082844800 seconds before 1970.)
LocalMacEpoch(utc_offset) ==
    LET timestamp == (-2082844800) - utc_offset
    IN  Wide(0, IF timestamp < 0 THEN -timestamp ELSE timestamp)

\* get_offset with the offset computed anew on every call.
get_offset_EveryCall(f, utc_offset) ==
    [f EXCEPT !.MAC_EPOCH_OFFSET = LocalMacEpoch(utc_offset), !.once = TRUE]

\* get_offset: INIT_MAC_EPOCH_OFFSET.call_once sets MAC_EPOCH_OFFSET on the
\* first call only; utc_offset is the local zone at the time of the call.
get_offset(f, utc_offset) ==
    IF f.once THEN f
    ELSE [f EXCEPT !.MAC_EPOCH_OFFSET = LocalMacEpoch(utc_offset), !.once = TRUE]

\* from_mac_datetime(date): the DateTime<Utc> whose timestamp is
\* (date as i64) - get_offset().
from_mac_datetime(f, utc_offset) ==
    LET g == get_offset(f, utc_offset)
    IN  [g EXCEPT !.dt = WideSub(g.date, g.MAC_EPOCH_OFFSET),
                  !.state = "to_mac_datetime"]

\* to_mac_datetime(dt): (dt.to_utc().timestamp() + get_offset()) as u32.
to_mac_datetime(f, utc_offset) ==
    LET g == get_offset(f, utc_offset)
    IN  [g EXCEPT !.back = as_u32(WideAdd(g.dt, g.MAC_EPOCH_OFFSET)),
                  !.state = "End", !.outcome = "ok"]

\* The round trip on entry: nothing converted, the offset not yet set.
TimeFrame(date) ==
    [date |-> date, dt |-> Wide(0, 0), back |-> Wide(0, 0),
     MAC_EPOCH_OFFSET |-> Wide(0, 0), once |-> FALSE,
     state |-> "from_mac_datetime", outcome |-> "running", why |-> "-"]

DateMargin == 1   \* how far around each edge of the u32 range dates are taken

\* Offsets of the local zone from UTC in seconds: UTC-12, UTC-5, UTC, a
\* local mean time of +0:09:21, UTC+14.
LocalUtcOffsets == {-43200, -18000, 0, 561, 50400}

\* The u32 dates converted: both limbs around 0, around the limbs of the
\* offset, around 2^31 and up to 2^32 - 1.
MacDates ==
    LET o == 2082844800
    IN  {Wide(h, l) :
            h \in (0..DateMargin)
                  \cup (((o \div 65536) - DateMargin)..((o \div 65536) + DateMargin))
                  \cup ((32767 - DateMargin)..(32768 + DateMargin))
                  \cup ((65535 - DateMargin)..65535),
            l \in (0..DateMargin)
                  \cup (((o % 65536) - DateMargin)..((o % 65536) + DateMargin))
                  \cup ((65535 - DateMargin)..65535)}

(***************************************************************************)
(* SpecTime: to_mac_datetime(from_mac_datetime(d)) for each date d, the    *)
(* local zone being whatever it is at each of the two calls.               *)
(***************************************************************************)

TimeInit ==
    /\ timep \in {TimeFrame(d) : d \in MacDates}
    /\ hunkp = Idle
    /\ objp = Idle
    /\ libp = Idle
    /\ symp = Idle
    /\ typep = Idle
    /\ hashp = Idle
    /\ oncep = Idle
    /\ lookp = Idle

\* The call st of the round trip is made, giving frame next.
TimePass(st, next) ==
    /\ timep.outcome = "running"
    /\ timep.state = st
    /\ timep' = next
    /\ UNCHANGED <<hunkp, objp, libp, symp, typep, hashp, oncep, lookp>>

TimeNext ==
    \/ \E z \in LocalUtcOffsets : TimePass("from_mac_datetime", from_mac_datetime(timep, z))
    \/ \E z \in LocalUtcOffsets : TimePass("to_mac_datetime", to_mac_datetime(timep, z))

SpecTime == TimeInit /\ [][TimeNext]_vars

(***************************************************************************)
(* SpecHash: nametable_hash called on each input name, in a build with or  *)
(* without integer-overflow checks.                                        *)
(***************************************************************************)

MaxNameLen == 3   \* longest name made of every combination of NameBytes

\* The bytes short names are made of: '0', 'a', 'z'.
NameBytes == {48, 97, 122}

\* The name of n bytes 'a'.
LongName(n) == [j \in 1..n |-> 97]

\* The names hashed: every short name, and names whose length is just
\* below, at and just above the multiples 256 and 512 of 256.
HashNames ==
    SeqsUpTo(NameBytes, MaxNameLen)
    \cup {LongName(n) : n \in {255, 256, 257, 511, 512, 513}}

\* One call on entry.
HashFrame(name, build) ==
    [name |-> name, build |-> build, state |-> "nametable_hash", result |-> 0,
     outcome |-> "running", why |-> "-"]

\* The call: the loop runs when len & 0xff is not 0, and in it `u += *c`
\* on the u8 accumulator panics in a build with overflow checks when the
\* sum leaves the u8 range.
nametable_hash_call(f) ==
    IF f.build = "debug" /\ Len(f.name) % 256 # 0 /\ HashAddOverflows(f.name, 0)
    THEN Panic(f, "attempt to add with overflow")
    ELSE [f EXCEPT !.result = nametable_hash(f.name), !.state = "End", !.outcome = "ok"]

HashInit ==
    /\ hashp \in {HashFrame(n, b) : n \in HashNames, b \in Builds}
    /\ hunkp = Idle
    /\ objp = Idle
    /\ libp = Idle
    /\ symp = Idle
    /\ typep = Idle
    /\ timep = Idle
    /\ oncep = Idle
    /\ lookp = Idle

HashNext ==
    /\ hashp.outcome = "running"
    /\ hashp' = nametable_hash_call(hashp)
    /\ UNCHANGED <<hunkp, objp, libp, symp, typep, timep, oncep, lookp>>

SpecHash == HashInit /\ [][HashNext]_vars


(***************************************************************************)
(* SpecOnce: get_offset called from several threads (util.rs).  Every call *)
(* of from_mac_datetime or to_mac_datetime starts with a call of           *)
(* get_offset, which is INIT_MAC_EPOCH_OFFSET.call_once(closure) followed  *)
(* by a read of the static MAC_EPOCH_OFFSET.  One step is one access of    *)
(* memory the threads share.                                               *)
(***************************************************************************)

MaxThreads == 3   \* threads converting dates at the same time
MaxCalls == 2     \* calls of get_offset each thread makes

Threads == 1..MaxThreads

\* The statics of util.rs as the program starts, every thread about to
\* make its first call.  seen[t] lists what the calls of t returned;
\* computed counts the runs of the closure.
OnceFrame ==
    [MAC_EPOCH_OFFSET |-> Wide(0, 0), INIT_MAC_EPOCH_OFFSET |-> "INCOMPLETE",
     pc |-> [t \in Threads |-> "call_once"],
     seen |-> [t \in Threads |-> <<>>],
     computed |-> 0, state |-> "Threads", outcome |-> "running"]

\* call_once with no synchronisation: a thread that does not find the
\* Once complete runs the closure, whoever else is running it.
Once_call_once_Unsynchronised(f, t) ==
    IF f.INIT_MAC_EPOCH_OFFSET = "COMPLETE" THEN [f EXCEPT !.pc[t] = "load"]
    ELSE [f EXCEPT !.INIT_MAC_EPOCH_OFFSET = "RUNNING", !.pc[t] = "closure"]

\* Once::call_once on entry: a complete Once is passed; an incomplete one
\* is taken by this thread (atomically), which goes on to run the closure;
\* a thread that finds it running waits (the frame is left as it is).
Once_call_once(f, t) ==
    IF f.INIT_MAC_EPOCH_OFFSET = "COMPLETE" THEN [f EXCEPT !.pc[t] = "load"]
    ELSE IF f.INIT_MAC_EPOCH_OFFSET = "INCOMPLETE"
    THEN [f EXCEPT !.INIT_MAC_EPOCH_OFFSET = "RUNNING", !.pc[t] = "closure"]
    ELSE f

\* The closure: MAC_EPOCH_OFFSET = <local 1904-01-01 00:00:00>.timestamp().abs(),
\* the local zone being utc_offset seconds east.
Once_closure(f, t, utc_offset) ==
    [f EXCEPT !.MAC_EPOCH_OFFSET = LocalMacEpoch(utc_offset),
              !.computed = @ + 1, !.pc[t] = "complete"]

\* call_once after the closure returned: the Once is complete and the
\* threads waiting on it are released.
Once_complete(f, t) ==
    [f EXCEPT !.INIT_MAC_EPOCH_OFFSET = "COMPLETE", !.pc[t] = "load"]

\* The value of get_offset: the static is read and returned; the thread
\* makes its next call, if it has one left.
get_offset_load(f, t) ==
    [f EXCEPT !.seen[t] = Append(@, f.MAC_EPOCH_OFFSET),
              !.pc[t] = IF Len(f.seen[t]) + 1 < MaxCalls THEN "call_once" ELSE "done"]

OnceInit ==
    /\ oncep = OnceFrame
    /\ hunkp = Idle
    /\ objp = Idle
    /\ libp = Idle
    /\ symp = Idle
    /\ typep = Idle
    /\ timep = Idle
    /\ hashp = Idle
    /\ lookp = Idle

\* Thread t, at pc, takes the step that gives frame next.
OncePass(t, pc, next) ==
    /\ oncep.outcome = "running"
    /\ oncep.pc[t] = pc
    /\ next # oncep
    /\ oncep' = next
    /\ UNCHANGED <<hunkp, objp, libp, symp, typep, timep, hashp, lookp>>

OnceNext ==
    \/ \E t \in Threads : OncePass(t, "call_once", Once_call_once(oncep, t))
    \/ \E t \in Threads, z \in LocalUtcOffsets :
            OncePass(t, "closure", Once_closure(oncep, t, z))
    \/ \E t \in Threads : OncePass(t, "complete", Once_complete(oncep, t))
    \/ \E t \in Threads : OncePass(t, "load", get_offset_load(oncep, t))

SpecOnce == OnceInit /\ [][OnceNext]_vars

(***************************************************************************)
(* SpecLookup: the name of a record looked up in a decoded object.  Hunks  *)
(* and local variables derive NameIdFromObject (proc_macros/mod.rs); type  *)
(* records implement Lookup::get_reference (types_m68k.rs).                *)
(***************************************************************************)

MaxEntries == 4   \* most entries of the name table of the object

\* The name table parse_object builds for n names: ids 1, 2, .. n in the
\* order of the entries.
NamesOf(n) == [i \in 1..n |-> [id |-> i, name |-> NameOf(i)]]

\* The records that carry a name_id, by how their name is looked up.
DerivedNameKinds == {"Hunk", "LocalVar"}
LookupNameKinds == {"StructMember"}

\* A lookup on entry: the record of this kind with this name_id, and the
\* names of the object.  The result is <<entry>> for an entry found and
\* <<>> for None.
LookFrame(kind, name_id, n) ==
    [kind |-> kind, name_id |-> name_id, names |-> NamesOf(n),
     state |-> IF kind \in DerivedNameKinds THEN "name" ELSE "get_reference",
     result |-> <<>>, outcome |-> "running", why |-> "-"]

\* The derived NameIdFromObject::name:
\* obj.names()[(self.name_id + 1) as usize].name().clone().  The slice is
\* indexed from 0, so this is the entry at position name_id + 2 of the
\* table; indexing past the end panics.
NameIdFromObject_name(f) ==
    IF f.name_id + 2 > Len(f.names)
    THEN [Panic(f, "index out of bounds") EXCEPT !.state = "End"]
    ELSE [f EXCEPT !.result = <<f.names[f.name_id + 2]>>, !.state = "End", !.outcome = "ok"]

\* Lookup::get_reference: index.names().iter().find(|x| x.id() == self.name_id),
\* the first entry with the id, or None.
Lookup_get_reference(f) ==
    LET hits == {i \in 1..Len(f.names) : f.names[i].id = f.name_id}
    IN  [f EXCEPT !.result = IF hits = {} THEN <<>>
                             ELSE <<f.names[CHOOSE i \in hits : \A j \in hits : i <= j]>>,
                  !.state = "End", !.outcome = "ok"]

LookInit ==
    /\ lookp \in {LookFrame(k, id, n) : k \in DerivedNameKinds \cup LookupNameKinds,
                                         id \in 0..(MaxEntries + 2), n \in 0..MaxEntries}
    /\ hunkp = Idle
    /\ objp = Idle
    /\ libp = Idle
    /\ symp = Idle
    /\ typep = Idle
    /\ timep = Idle
    /\ hashp = Idle
    /\ oncep = Idle

LookPass(st, next) ==
    /\ lookp.outcome = "running"
    /\ lookp.state = st
    /\ lookp' = next
    /\ UNCHANGED <<hunkp, objp, libp, symp, typep, timep, hashp, oncep>>

LookNext ==
    \/ LookPass("name", NameIdFromObject_name(lookp))
    \/ LookPass("get_reference", Lookup_get_reference(lookp))

SpecLookup == LookInit /\ [][LookNext]_vars

(***************************************************************************)
(* SpecEnvelopes: one of the three envelope decoders, parse_library,       *)
(* parse_object or parse_symtab, run on one of its inputs.                 *)
(***************************************************************************)

EnvInit == LibInit \/ ObjInit \/ SymInit

EnvNext == LibNext \/ ObjNext \/ SymNext

SpecEnvelopes == EnvInit /\ [][EnvNext]_vars
(***************************************************************************)
(* Properties of the hunk-stream decoder.                                  *)
(***************************************************************************)

CodeKinds == {"LocalCode", "GlobalCode"}

MarkerKinds == {"CFMExport", "GlobalOverload", "GlobalMultiDef"}

\* C1: the hunk decoder stops exactly when, after committing a record, the
\* cursor is at the end of the slice: a commit appends the record, ends the
\* decoding (Ok) iff no byte is left and goes back to reading a tag
\* otherwise -- whatever the record is, an End record included -- and the
\* decoder returns Ok from no other step.
C1_StopsExactlyAtEndOfSlice ==
    [][ /\ hunkp.state = "CommitHunk" =>
            /\ hunkp'.hunks = Append(hunkp.hunks, hunkp.cur)
            /\ hunkp.data = <<>> => hunkp'.outcome = "ok" /\ hunkp'.state = "End"
            /\ hunkp.data # <<>> => hunkp'.outcome = "running" /\ hunkp'.state = "ParseTag"
        /\ hunkp'.outcome = "ok" => hunkp.state = "CommitHunk" /\ hunkp.data = <<>>
      ]_vars

\* C1 witness: a finished decode whose hunk list holds an End record
\* followed by a later record.
C1_Witness_RecordAfterEnd ==
    /\ hunkp.outcome = "ok"
    /\ \E i \in 1..Len(hunkp.hunks) : hunkp.hunks[i].kind = "End" /\ i < Len(hunkp.hunks)

\* C2: the special_flag of every committed LocalCode / GlobalCode hunk is
\* determined by the hunk committed immediately before it: CFMExport,
\* GlobalOverload or GlobalMultiDef if that hunk is the marker of that name,
\* None otherwise (also when an earlier marker is separated from the code
\* hunk by another record).
C2_FlagFromPreviousHunkOnly ==
    \A i \in 1..Len(hunkp.hunks) :
        hunkp.hunks[i].kind \in CodeKinds =>
            /\ i > 1
            /\ LET prev == hunkp.hunks[i - 1].kind
               IN  hunkp.hunks[i].flag =
                      (IF prev = "CFMExport" THEN "CFMExport"
                       ELSE IF prev = "GlobalOverload" THEN "GlobalOverload"
                       ELSE IF prev = "GlobalMultiDef" THEN "GlobalMultiDef"
                       ELSE "None")

\* C2 witness: marker, another record, then a code hunk whose flag is None.
C2_Witness_SeparatedMarker ==
    \E i \in 3..Len(hunkp.hunks) :
        /\ hunkp.hunks[i].kind \in CodeKinds
        /\ hunkp.hunks[i].flag = "None"
        /\ hunkp.hunks[i - 1].kind \notin MarkerKinds
        /\ hunkp.hunks[i - 2].kind \in MarkerKinds

\* The nine raw hunk types that TryFrom<u16> sends to ParseReservedHunk.
ReservedRaws ==
    {"HUNK_LIBRARY_BREAK", "HUNK_DIFF_8BIT", "HUNK_DIFF_16BIT", "HUNK_DIFF_32BIT",
     "HUNK_DEINIT_CODE", "HUNK_FORCE_ACTIVE", "HUNK_ILLEGAL1", "HUNK_ILLEGAL2",
     "HUNK_CFM_INTERNAL"}

\* C3 (as claimed): when the tag of any of the nine reserved kinds has been
\* read, decoding ends by returning an error (ReservedHunkEncountered), the
\* same outcome for all nine, and no hunk list is returned.
C3_ReservedTagReturnsError ==
    (hunkp.tag \in ReservedRaws /\ hunkp.outcome # "running") => hunkp.outcome = "err"

\* C6 (as claimed): a slice that ends exactly after a committed record gives
\* the hunk list; a read that needs more bytes than the slice has left (the
\* empty slice, a slice ending inside a tag or inside a payload) makes the
\* decoder return an error (TruncatedInput).
C6_TruncatedInputReturnsError ==
    /\ (hunkp.state = "End") => (hunkp.outcome = "ok" /\ hunkp.data = <<>>)
    /\ (hunkp.value = <<>> /\ hunkp.outcome # "running") => hunkp.outcome = "err"
    /\ (hunkp.why = "index out of range") => hunkp.outcome = "err"

\* C7 (as claimed): a stream whose first tag is a u16 that is no mapped hunk
\* tag makes the decoder return an error (BadHunkTag).
C7_UnmappedTagReturnsError ==
    ( /\ Len(hunkp.value) >= 2
      /\ ~HunkParseState_try_from(convert_be_u16(Slice(hunkp.value, 0, 2))).ok
      /\ hunkp.outcome # "running" ) => hunkp.outcome = "err"

(***************************************************************************)
(* Properties of the object decoder.                                       *)
(***************************************************************************)

\* The hunk region and the symbol-table region that the header of the
\* object in frame f locates.
CodeRegion(f) == Slice(f.value, 64, 64 + f.header.obj_size)

SymRegion(f) ==
    Slice(f.value, f.header.symtable_offset, f.header.symtable_offset + f.header.symtable_size)

\* The sum of the size fields of the records that parse_code, continued from
\* frame f, reads with a raw type in `tags` (code and data records hold
\* their size at bytes 4..8 of the payload).
RECURSIVE SizeFieldSum(_, _)
SizeFieldSum(f, tags) ==
    IF f.outcome # "running" THEN 0
    ELSE (IF /\ f.state \in {"ParseObjCodeHunk", "ParseDataHunk"}
             /\ f.tag \in tags
             /\ Len(f.data) >= 8
          THEN convert_be_u32(Slice(f.data, 4, 8)) ELSE 0)
         + SizeFieldSum(HunkStep(f), tags)

\* C4: an object is decoded only if the header's code_size, idata_size and
\* udata_size equal the sums of the size fields of the code hunks, of the
\* initialized-data hunks and of the uninitialized-data hunks of its stream.
C4_SizeCountersAgreeWithHunks ==
    objp.outcome = "ok" =>
        /\ objp.header.code_size = SizeFieldSum(HunkFrame(CodeRegion(objp)), CodeTags)
        /\ objp.header.idata_size = SizeFieldSum(HunkFrame(CodeRegion(objp)), InitializedDataTags)
        /\ objp.header.udata_size = SizeFieldSum(HunkFrame(CodeRegion(objp)), UninitializedDataTags)

\* The symbol-table decoder, run on the region of frame f, stops in its
\* type-table pass because the type-table decoder returned an error value.
TypeTableFails(f) ==
    LET s == parse_symtab(SymRegion(f))
    IN  /\ s.state = "ProcessTypeTableStart"
        /\ s.type_offset <= Len(s.value)
        /\ TypeTable_try_from(DropBytes(s.value, s.type_offset), s.num_types).outcome = "err"

\* C5: when the hunk-stream decoder returns an error for the hunk region,
\* or the symbol-table decoder returns an error for the symbol-table region,
\* or the type-table decoder returns an error to the symbol-table decoder,
\* the object decoder ends with an error value: it neither goes on nor
\* aborts.
C5_SubDecoderFailureIsReturnedAsError ==
    [][ /\ ( /\ objp.state = "ProcessObjectData"
             /\ 64 + objp.header.obj_size <= Len(objp.value)
             /\ parse_code(CodeRegion(objp)).outcome = "err" )
           => objp'.outcome = "err"
        /\ ( /\ objp.state = "ProcessSymbolTable"
             /\ objp.header.symtable_offset # 0
             /\ objp.header.symtable_offset + objp.header.symtable_size <= Len(objp.value)
             /\ parse_symtab(SymRegion(objp)).outcome = "err" \/ TypeTableFails(objp) )
           => objp'.outcome = "err"
      ]_vars

\* The name-table count field of the object in frame f.
NameTableCountField(f) == convert_be_u32(Slice(f.value, 16, 20))

\* C8: with nametable_offset # 0 and count field c >= 1 the decoded name
\* table has c - 1 entries with ids 1 .. c - 1 in file order; for c = 1 that
\* is no entry: the name-table pass reads none and decoding moves on to the
\* symbol-table fields.
C8_NameTableHasCountMinusOneEntries ==
    [][ /\ ( /\ objp'.outcome = "ok"
             /\ objp'.header.nametable_offset # 0
             /\ NameTableCountField(objp') >= 1 )
           => /\ Len(objp'.name_table) = NameTableCountField(objp') - 1
              /\ \A i \in 1..Len(objp'.name_table) : objp'.name_table[i].id = i
        /\ ( /\ objp.state = "ProcessNameTable"
             /\ objp.header.nametable_offset # 0
             /\ NameTableCountField(objp) = 1 )
           => /\ objp'.state = "ObjectHeaderSymTableOffset"
              /\ objp'.name_table = <<>>
      ]_vars

\* The offset in the object buffer of the i-th decoded name entry: entries
\* follow one another from nametable_offset, each 2 + strlen + 1 bytes long.
RECURSIVE NameEntryOffset(_, _)
NameEntryOffset(f, i) ==
    IF i = 1 THEN f.header.nametable_offset
    ELSE NameEntryOffset(f, i - 1) + 2 + Len(f.name_table[i - 1].name) + 1

\* The u16 hash stored in front of the i-th decoded name entry.
OnDiskHash(f, i) ==
    convert_be_u16(Slice(f.value, NameEntryOffset(f, i), NameEntryOffset(f, i) + 2))

\* C9: every name entry of a decoded object has nametable_hash(name) equal
\* to the hash stored with it on disk (a mismatch fails the decoding).
C9_NameHashesAreChecked ==
    objp.outcome = "ok" =>
        \A i \in 1..Len(objp.name_table) :
            nametable_hash(objp.name_table[i].name) = OnDiskHash(objp, i)

(***************************************************************************)
(* Properties of the library decoder.                                      *)
(***************************************************************************)

\* The u32 at offset a of buffer v.
U32At(v, a) == convert_be_u32(Slice(v, a, a + 4))

\* A NUL-terminated string starts at offset x of buffer v.
HasCStrAt(v, x) == x < Len(v) /\ \E i \in (x + 1)..Len(v) : v[i] = 0

\* A valid library buffer: the magic word, flags 0, and num_files 20-byte
\* descriptors one after another from offset 28, each with its name (and
\* path, unless 0) a string in the buffer and its member bytes in the buffer.
ValidLibrary(v) ==
    /\ Len(v) >= 28
    /\ Slice(v, 0, 4) = <<77, 87, 79, 66>>
    /\ U32At(v, 8) = 0
    /\ U32At(v, 24) <= Len(v)
    /\ 28 + 20 * U32At(v, 24) <= Len(v)
    /\ \A i \in 0..(U32At(v, 24) - 1) :
          LET at == 28 + 20 * i
          IN  /\ HasCStrAt(v, U32At(v, at + 4))
              /\ U32At(v, at + 8) = 0 \/ HasCStrAt(v, U32At(v, at + 8))
              /\ U32At(v, at + 12) <= Len(v)
              /\ U32At(v, at + 16) <= Len(v)
              /\ U32At(v, at + 12) + U32At(v, at + 16) <= Len(v)

\* C10: a valid library buffer is decoded, into as many member files as its
\* num_files field says.
C10_ValidLibraryDecodesAllFiles ==
    (ValidLibrary(libp.value) /\ libp.outcome # "running") =>
        /\ libp.outcome = "ok"
        /\ Len(libp.files) = U32At(libp.value, 24)

(***************************************************************************)
(* Claims about the library decoder's members.                             *)
(***************************************************************************)

\* The states of parse_library in which a file descriptor is read or a
\* member is committed.
FileDescriptorStates ==
    {"FileHeaderModDate", "FileHeaderFileName", "FileHeaderFullPathName",
     "FileHeaderObjStart", "FileHeaderObjSize", "FileDataBytes", "FileCommit"}

\* The buffer has the library magic word and a num_files field equal to 0.
ZeroFileLibrary(v) ==
    /\ Len(v) >= 28
    /\ Slice(v, 0, 4) = <<77, 87, 79, 66>>
    /\ U32At(v, 24) = 0

\* C11: for a library whose header has num_files = 0, the decoder never
\* enters a state that reads a file descriptor or decrements the remaining-
\* files counter, and it ends with success and an empty file list.
C11_ZeroFilesYieldsEmptyList ==
    ZeroFileLibrary(libp.value) =>
        /\ libp.state \notin FileDescriptorStates
        /\ libp.outcome # "running" => (libp.outcome = "ok" /\ libp.files = <<>>)

\* The library buffers whose members are all well-formed object buffers.
ObjectLibraries == {LibraryBytes(d) : d \in ObjectLibraryDescs}

\* The member region the i-th on-disk descriptor of buffer v describes:
\* v[data_start .. data_start + data_size].
DescribedMember(v, i) ==
    LET at == 28 + 20 * (i - 1)
    IN  Slice(v, U32At(v, at + 12), U32At(v, at + 12) + U32At(v, at + 16))

RoutineReadStates ==
    {"ProcessRoutineProcFunc", "ProcessRoutineStatementList",
     "ProcessRoutineLocalVarsStart", "ProcessRoutineLocalVars"}

\* The offset in the symbol table of the next byte of routine_bytes.
RoutineCursor(f) == Len(f.value) - Len(f.routine_bytes)

\* C13: when the header's type_offset is not zero, every read of a routine
\* record is at an offset below type_offset: no byte at or beyond
\* type_offset is taken as part of a routine.
C13_RoutinesReadOnlyBeforeTypeOffset ==
    (symp.outcome = "running" /\ symp.state \in RoutineReadStates /\ symp.type_offset # 0)
        => RoutineCursor(symp) < symp.type_offset

\* The raw length of a decoded routine: 2 + 8 * |statements| + 2 + 14 * |locals|.
RoutineRawLength(r) == 2 + 8 * Len(r.statement_locations) + 2 + 14 * Len(r.local_vars)

RECURSIVE RoutinesRawLength(_)
RoutinesRawLength(rs) ==
    IF rs = <<>> THEN 0 ELSE RoutineRawLength(Head(rs)) + RoutinesRawLength(Tail(rs))

\* C14: the decoder succeeds only if 32 plus the raw lengths of the decoded
\* routines is type_offset when type_offset is not zero, and the length of
\* the buffer when it is zero.
C14_SucceedsOnlyIfSizesAgree ==
    symp.outcome = "ok" =>
        32 + RoutinesRawLength(symp.routines)
            = (IF symp.type_offset # 0 THEN symp.type_offset ELSE Len(symp.value))

\* C15: every routine of a decoded symbol table has a statement-location
\* list that is not empty, whose last element is the end-of-list pair
\* (object offset 0xFFFFFFFF) and none of whose other elements is.
C15_EndPairIsLastAndOnlyLast ==
    symp.outcome = "ok" =>
        \A i \in 1..Len(symp.routines) :
            LET sl == symp.routines[i].statement_locations
            IN  /\ sl # <<>>
                /\ sl[Len(sl)].is_end_of_list
                /\ \A j \in 1..(Len(sl) - 1) : ~sl[j].is_end_of_list

\* A decoded table with a routine of MaxStmts statement locations before its
\* end-of-list pair.
C15_Witness_ListWithStatements ==
    /\ symp.outcome = "ok"
    /\ \E i \in 1..Len(symp.routines) :
          LET sl == symp.routines[i].statement_locations
          IN  /\ Len(sl) = MaxStmts + 1
              /\ sl[Len(sl)].is_end_of_list
              /\ ~sl[1].is_end_of_list

\* The number of (object offset, source offset) pairs of the statement list
\* that starts at offset p of v, the end-of-list pair included; -1 when the
\* list runs off the buffer.
RECURSIVE StatementPairs(_, _)
StatementPairs(v, p) ==
    IF p + 8 > Len(v) THEN -1
    ELSE IF Slice(v, p, p + 4) = <<255, 255, 255, 255>> THEN 1
    ELSE LET n == StatementPairs(v, p + 8) IN IF n < 0 THEN -1 ELSE n + 1

\* The routine records laid out from offset p of v to its end, by the record
\* format: u16 type, the statement list, u16 n_locals, n_locals locals of 14
\* bytes.  ok is FALSE when the bytes are not whole well-formed records.
RECURSIVE RoutineRecords(_, _)
RoutineRecords(v, p) ==
    IF p = Len(v) THEN [ok |-> TRUE, recs |-> <<>>]
    ELSE IF p + 2 > Len(v) \/ convert_be_u16(Slice(v, p, p + 2)) > 1
    THEN [ok |-> FALSE, recs |-> <<>>]
    ELSE LET n == StatementPairs(v, p + 2)
             q == p + 2 + 8 * n
         IN  IF n < 0 \/ q + 2 > Len(v) THEN [ok |-> FALSE, recs |-> <<>>]
             ELSE LET k == convert_be_u16(Slice(v, q, q + 2))
                      e == q + 2 + 14 * k
                  IN  IF e > Len(v) \/ \E j \in 0..(k - 1) :
                                          v[q + 2 + 14 * j + 9] > 2 \/ v[q + 2 + 14 * j + 10] > 3
                      THEN [ok |-> FALSE, recs |-> <<>>]
                      ELSE LET rest == RoutineRecords(v, e)
                           IN  [ok |-> rest.ok,
                                recs |-> <<[statements |-> n, locals |-> k]>> \o rest.recs]

\* A symbol table without types whose routine region, from offset 32 to the
\* end, is whole well-formed routine records.
WellFormedRoutineTable(v) ==
    /\ Len(v) >= 32
    /\ Slice(v, 0, 4) = <<83, 89, 77, 72>>
    /\ U32At(v, 4) = 0
    /\ RoutineRecords(v, 32).ok

\* C16: a symbol table whose routine region holds k well-formed routine
\* records is decoded into exactly k routines in the order of the records,
\* each with the statement locations and the n_locals local variables of
\* its record, for every n_locals >= 0; the raw lengths of the routines
\* add up to the whole region.
C16_EveryRoutineRecordIsEmitted ==
    (WellFormedRoutineTable(symp.value) /\ symp.outcome # "running") =>
        LET recs == RoutineRecords(symp.value, 32).recs
        IN  /\ symp.outcome = "ok"
            /\ Len(symp.routines) = Len(recs)
            /\ \A i \in 1..Len(recs) :
                  /\ Len(symp.routines[i].statement_locations) = recs[i].statements
                  /\ Len(symp.routines[i].local_vars) = recs[i].locals
            /\ 32 + RoutinesRawLength(symp.routines) = Len(symp.value)

(***************************************************************************)
(* Claims about the type-table decoder.                                    *)
(***************************************************************************)

\* C17: the decoder appends one definition for each record in the order of
\* the stream and counts down once for each, so between records the
\* definitions and the counter add up to num_types, and a successful decode
\* yields exactly num_types definitions, the i-th with the id of the i-th
\* record; with num_types = 0 the result is the empty table and no pass of
\* the loop is taken.
C17_OneDefinitionPerRecordUntilCountIsZero ==
    /\ typep.state \in {"ParseTag", "End"} =>
          Len(typep.types) + typep.remaining_types = typep.num_types
    /\ typep.state \in {"ParseTag", "End"} =>
          \A i \in 1..Len(typep.types) : typep.types[i].id = 200 + i
    /\ typep.state = "CommitType" =>
          Len(typep.types) + typep.remaining_types = typep.num_types
    /\ typep.outcome = "ok" =>
          (Len(typep.types) = typep.num_types /\ typep.remaining_types = 0)
    /\ typep.state # "Idle" /\ typep.num_types = 0 =>
          (typep.outcome = "ok" /\ typep.types = <<>> /\ typep.state = "End")

\* A table of MaxTypes records of different kinds decoded with the count
\* MaxTypes, bytes of a further record or none left behind it.
C17_Witness_TableOfSeveralKinds ==
    /\ typep.outcome = "ok"
    /\ typep.num_types = MaxTypes
    /\ Len(typep.types) = MaxTypes
    /\ typep.types[1].typ.kind = "TypeStruct"
    /\ typep.types[1].typ.members = 1
    /\ typep.types[2].typ.kind = "TypePointer"

(***************************************************************************)
(* Claims about the order of the sub-decoders within parse_object.         *)
(***************************************************************************)

\* The states of parse_object in which the name table is read or the
\* symbol-table decoder is called.
NameAndSymbolTableStates == {"ProcessNameTable", "ProcessName", "ProcessSymbolTable"}

\* C18: within one call the name table is read first, then the symbol table
\* is decoded, then the hunk stream: while the name table or the symbol
\* table is still to be read, no hunk has been decoded.
C18_HunksDecodedAfterNameAndSymbolTables ==
    (objp.outcome = "running" /\ objp.state \in NameAndSymbolTableStates)
        => objp.code_objects = <<>>

(***************************************************************************)
(* Claims about the utilities: the Mac-epoch round trip and the name hash. *)
(***************************************************************************)

\* C19: for every date d of the u32 range, to_mac_datetime(from_mac_datetime(d))
\* is d.
C19_MacEpochRoundTrip ==
    timep.state = "End" => (timep.outcome = "ok" /\ timep.back = timep.date)

\* The round trip of 2^32 - 1, a date past 2^31 whose Unix timestamp is
\* itself past 2^31, in a zone that is not UTC.
C19_Witness_LargestDate ==
    /\ timep.state = "End"
    /\ timep.date = Wide(65535, 65535)
    /\ timep.back = timep.date
    /\ timep.dt.hi >= 32768
    /\ timep.MAC_EPOCH_OFFSET # LocalMacEpoch(0)

\* C20: for every name, nametable_hash returns a value below 1024; it
\* returns 0 for the empty name and for every name whose length is a
\* multiple of 256.
C20_HashBelow1024AndZeroOnMultiplesOf256 ==
    hashp.state # "Idle" /\ hashp.outcome # "running" =>
        /\ hashp.outcome = "ok"
        /\ hashp.result < NAMEHASH
        /\ Len(hashp.name) % 256 = 0 => hashp.result = 0


\* rotate_right of an 8-bit value by 3.
RotateRight3(u) == (u \div 8) + (u % 8) * 32

\* The accumulator the hash is specified to have after the bytes of name,
\* from u: for each byte b, rotate right by 3 and then add b modulo 256.
RECURSIVE RotateAddMod256(_, _)
RotateAddMod256(name, u) ==
    IF name = <<>> THEN u
    ELSE IF Len(name) = 1 THEN (RotateRight3(u) + name[1]) % 256
    ELSE LET h == Len(name) \div 2
         IN  CHOOSE r \in {RotateAddMod256(SubSeq(name, h + 1, Len(name)), v) :
                              v \in {RotateAddMod256(SubSeq(name, 1, h), u)}} : TRUE

\* C21: for every name with L = len & 0xFF not 0, nametable_hash returns
\* ((L << 8) | u) & 0x3FF, u being the rotate-and-add accumulator with the
\* addition wrapping modulo 256, and it returns a value for every such name.
C21_HashIsRotateAddWrappingForEveryName ==
    hashp.state # "Idle" /\ hashp.outcome # "running" /\ Len(hashp.name) % 256 # 0 =>
        /\ hashp.outcome = "ok"
        /\ hashp.result =
              ((Len(hashp.name) % 256) * 256 + RotateAddMod256(hashp.name, 0)) % 1024

\* C22: under any interleaving of calls from several threads the offset is
\* computed at most once, every call observes the same initialised offset,
\* and no call observes the uninitialised value 0.
C22_OffsetComputedOnceAndSeenInitialised ==
    oncep.state # "Idle" =>
        /\ oncep.computed <= 1
        /\ \A t \in Threads : \A i \in 1..Len(oncep.seen[t]) :
              /\ oncep.seen[t][i] # Wide(0, 0)
              /\ oncep.seen[t][i] = oncep.MAC_EPOCH_OFFSET
              /\ \A s \in Threads : \A j \in 1..Len(oncep.seen[s]) :
                    oncep.seen[s][j] = oncep.seen[t][i]

\* One thread has made all its calls and another has returned from a call,
\* while a third is past call_once and has yet to read the static.
C22_Witness_CallsOfSeveralThreadsReturned ==
    /\ oncep.state # "Idle"
    /\ oncep.computed = 1
    /\ \E s, t, w \in Threads :
          /\ s # t /\ t # w /\ s # w
          /\ Len(oncep.seen[s]) = MaxCalls
          /\ Len(oncep.seen[t]) >= 1
          /\ oncep.pc[w] = "load"
          /\ oncep.seen[w] = <<>>

\* C23: for every record that carries a name_id, name lookup returns the
\* name entry whose id is name_id, and no entry when no entry has that id;
\* with ids 1..n in order this is the entry at position name_id - 1
\* counting from 0.
C23_LookupReturnsEntryWithThatId ==
    lookp.state = "End" =>
        /\ lookp.outcome = "ok"
        /\ IF lookp.name_id \in 1..Len(lookp.names)
           THEN /\ lookp.result = <<lookp.names[lookp.name_id]>>
                /\ lookp.result[1].id = lookp.name_id
           ELSE lookp.result = <<>>

\* C24: decode_object rejects every object buffer whose header version
\* (bytes 4..6) is not 0 with an error: the decoder does not get past the
\* version field of such a buffer, and it ends with an error value.
C24_NonZeroVersionIsRejected ==
    objp.state # "Idle" /\ Len(objp.value) >= 6
        /\ convert_be_u16(Slice(objp.value, 4, 6)) # 0 =>
            /\ objp.state \in {"ObjectHeaderStart", "ObjectHeaderMagicWord",
                               "ObjectHeaderVersion"}
            /\ objp.outcome \in {"running", "err"}

\* The buffer has four bytes to compare and they are not the magic word.
BadMagicWord(value, magic) ==
    Len(value) >= 4 /\ ~WordIs(Slice(value, 0, 4), magic)

\* Frame f of a decoder that entered as frame entry has gone no further
\* than the magic word state st: it stands before the comparison, or has
\* returned an error from it, and holds nothing but what it entered with.
StoppedAtMagicWord(f, entry, st) ==
    /\ f.state \in {entry.state, st}
    /\ f.outcome \in {"running", "err"}
    /\ f.outcome = "err" => f.state = st
    /\ [f EXCEPT !.state = entry.state, !.outcome = "running", !.why = "-"] = entry

\* C25: each of the three envelope decoders checks its magic word first: a
\* library buffer not starting with 0x4D574F42, an object buffer not
\* starting with 0xFEEDBEAD and a symbol-table buffer not starting with
\* 0x53594D48 are rejected with an error value before any other field is
\* read or any sub-decoder is invoked.
C25_BadMagicWordRejectedBeforeAnythingElse ==
    /\ libp.state # "Idle" /\ BadMagicWord(libp.value, <<77, 87, 79, 66>>) =>
          StoppedAtMagicWord(libp, LibFrame(libp.value, libp.build),
                             "LibraryHeaderMagicWord")
    /\ objp.state # "Idle" /\ BadMagicWord(objp.value, <<254, 237, 190, 173>>) =>
          StoppedAtMagicWord(objp, ObjFrame(objp.value, objp.build),
                             "ObjectHeaderMagicWord")
    /\ symp.state # "Idle" /\ BadMagicWord(symp.value, <<83, 89, 77, 72>>) =>
          StoppedAtMagicWord(symp, SymFrame(symp.value), "SymTabHeaderMagicWord")

\* A symbol table with routines and a wrong magic word has been rejected
\* at the magic word.
C25_Witness_SymbolTableRejectedAtMagicWord ==
    /\ symp.state = "SymTabHeaderMagicWord"
    /\ symp.outcome = "err"
    /\ BadMagicWord(symp.value, <<83, 89, 77, 72>>)
    /\ Len(symp.value) > 16
    /\ symp.routines = <<>>

\* The states of parse_object after ObjectHeaderReserved1, in order.
StatesAfterReserved1 ==
    {"ObjectHeaderCodeSize", "ObjectHeaderUninitializedDataSize",
     "ObjectHeaderInitializedDataSize", "ObjectHeaderCFM68kOldDefinitionVersion",
     "ObjectHeaderCFM68kOldImplmentationVersion", "ObjectHeaderCFM68kCurrentVersion",
     "ObjectHeaderReservedHasFlags", "ObjectHeaderReservedIsPascal",
     "ObjectHeaderReservedIsFourByteInt", "ObjectHeaderReservedIsEightDouble",
     "ObjectHeaderReservedIsMC68881", "ObjectHeaderReservedBaseReg",
     "ObjectHeaderReserved3", "ObjectHeaderReserved4", "End"}

\* The reserved fields of a 64-byte object header, as written in the buffer.
Reserved1Of(value) == Slice(value, 28, 32)
Reserved3Of(value) == value[63]
Reserved4Of(value) == value[64]

LibraryFlagsOf(value) == Slice(value, 8, 12)

\* C27: decode_library rejects every library buffer whose header flags
\* (bytes 8..12) are not 0: a library that decoded had flags = 0 on disk.
C27_NonZeroLibraryFlagsAreRejected ==
    libp.state # "Idle" /\ libp.outcome = "ok" =>
        WordIs(LibraryFlagsOf(libp.value), <<0, 0, 0, 0>>)

\* The version word of a library header, bytes 12..16 of the buffer.
LibraryVersionOf(value) == convert_be_u32(Slice(value, 12, 16))

\* C28: every library that decodes with a known processor has version 1 if
\* the processor is PowerPC and version 2 if it is M68K; a header that
\* does not is rejected.
C28_LibraryVersionAgreesWithProcessor ==
    libp.state # "Idle" /\ libp.outcome = "ok" =>
        /\ libp.header.version = LibraryVersionOf(libp.value)
        /\ libp.header.proc = "PowerPC" => libp.header.version = 1
        /\ libp.header.proc = "M68k" => libp.header.version = 2

\* The first tag of a hunk slice, and whether the decoder has taken it.
FirstTag(value) == convert_be_u16(Slice(value, 0, 2))
FirstTagTaken(f) == f.state # "Idle" /\ Len(f.value) >= 2 /\ f.data # f.value

\* C29: the u16 values the hunk decoder accepts as tags are exactly
\* 0x4567 .. 0x4567 + 46, each mapped to a record kind of its own; every
\* value outside that range is rejected as an unknown tag.
C29_AcceptedTagsAreStartToStartPlus46 ==
    FirstTagTaken(hunkp) =>
        IF FirstTag(hunkp.value) \in HUNK_START..(HUNK_START + 46)
        THEN /\ hunkp.tag # "none"
             /\ RawTag(hunkp.tag) = FirstTag(hunkp.value) \/ hunkp.hunks # <<>>
        ELSE /\ hunkp.outcome = "err"
             /\ hunkp.tag = "none"
             /\ hunkp.hunks = <<>>

\* The stream 458E | 456A <code header> <code>, the code of p bytes.
CFMExportThenGlobalCode(p) == BE16(17806) \o HunkRecord("HUNK_GLOBAL_CODE", p)

\* C30: decoding the stream of tag 0x458E followed by a GlobalCode record
\* yields a GlobalCode hunk whose special_flag is CFMExport, tag 0x458E
\* being the CFMExport marker, which has no payload.
C30_Tag458EIsCFMExportBeforeGlobalCode ==
    /\ hunkp.state # "Idle"
    /\ hunkp.outcome # "running"
    /\ \E p \in 0..MaxPayload : hunkp.value = CFMExportThenGlobalCode(p)
    => /\ hunkp.outcome = "ok"
       /\ Len(hunkp.hunks) = 2
       /\ hunkp.hunks[1].kind = "CFMExport"
       /\ hunkp.hunks[2].kind = "GlobalCode"
       /\ hunkp.hunks[2].flag = "CFMExport"

\* The member count of the PascalEnum payload at the cursor: the upper
\* half of the u32 field that follows the name.
PascalEnumCount(data) == convert_be_u16(Slice(data, 4, 6))

\* C31: a PascalEnum record (tag 7) whose count field holds n decodes to a
\* PascalEnum with n member name ids and takes 8 + 4 * n payload bytes
\* after the tag and id: with that payload at the cursor the PascalEnum
\* state does not end the decode.
C31_PascalEnumDecodes ==
    /\ typep.state = "ParsePascalEnum"
    /\ Len(typep.data) >= 8
    /\ Len(typep.data) >= 8 + 4 * PascalEnumCount(typep.data)
    => typep.outcome = "running"

\* The basic type codes: 0..17 and 100..108.
BasicTypeCodes == (0..17) \cup (100..108)

\* The fields of the Enum payload at the cursor, and whether the record is
\* all there (8 bytes and 8 for each member).
EnumBaseType(data) == convert_be_u16(Slice(data, 4, 6))
EnumMemberCount(data) == convert_be_u16(Slice(data, 6, 8))
EnumRecordComplete(data) ==
    Len(data) >= 8 /\ Len(data) >= 8 + 8 * EnumMemberCount(data)

\* C32: an Enum record whose u16 base_type is a basic type code (0..17 or
\* 100..108) decodes to an Enum with that basic type; for any other
\* base_type the type-table decoder returns an error, whatever the member
\* count of the record.
C32_EnumBaseMustBeBasic ==
    /\ typep.state = "ParseEnum" /\ EnumRecordComplete(typep.data)
          /\ typep.outcome # "running" =>
          /\ typep.outcome = "err"
          /\ EnumBaseType(typep.data) \notin BasicTypeCodes
    /\ typep.state = "CommitType" /\ typep.cur.kind = "TypeEnum" =>
          /\ typep.cur.base = EnumBaseType(typep.data)
          /\ typep.cur.base \in BasicTypeCodes
          /\ typep.cur.members = EnumMemberCount(typep.data)
    /\ \A i \in 1..Len(typep.types) :
          typep.types[i].typ.kind = "TypeEnum" => typep.types[i].typ.base \in BasicTypeCodes

\* An Enum record with a member and the base type 18, next to the basic
\* codes, has been returned as an error after an Enum with base type 17
\* was decoded.
C32_Witness_EnumBase18RejectedAfterBase17 ==
    /\ typep.state = "ParseEnum"
    /\ typep.outcome = "err"
    /\ EnumRecordComplete(typep.data)
    /\ EnumBaseType(typep.data) = 18
    /\ EnumMemberCount(typep.data) = 1
    /\ Len(typep.types) = 1
    /\ typep.types[1].typ.kind = "TypeEnum"
    /\ typep.types[1].typ.base = 17

\* The record kind of each tag that has one.
KindOfRaw ==
    [HUNK_START |-> "Start", HUNK_END |-> "End",
     HUNK_LOCAL_CODE |-> "LocalCode", HUNK_GLOBAL_CODE |-> "GlobalCode",
     HUNK_LOCAL_UDATA |-> "LocalUninitializedData",
     HUNK_GLOBAL_UDATA |-> "GlobalUninitializedData",
     HUNK_LOCAL_IDATA |-> "LocalInitializedData",
     HUNK_GLOBAL_IDATA |-> "GlobalInitializedData",
     HUNK_LOCAL_FARUDATA |-> "LocalFarUninitializedData",
     HUNK_GLOBAL_FARUDATA |-> "GlobalFarUninitializedData",
     HUNK_LOCAL_FARIDATA |-> "LocalFarInitializedData",
     HUNK_GLOBAL_FARIDATA |-> "GlobalFarInitializedData",
     HUNK_XREF_CODEJT16BIT |-> "XRefCodeJT16Bit", HUNK_XREF_DATA16BIT |-> "XRefData16Bit",
     HUNK_XREF_32BIT |-> "XRef32Bit",
     HUNK_GLOBAL_ENTRY |-> "GlobalEntry", HUNK_LOCAL_ENTRY |-> "LocalEntry",
     HUNK_SEGMENT |-> "Segment", HUNK_INIT_CODE |-> "InitCode",
     HUNK_MULTIDEF_GLOBAL |-> "GlobalMultiDef", HUNK_OVERLOAD_GLOBAL |-> "GlobalOverload",
     HUNK_XREF_CODE16BIT |-> "XRefCode16Bit", HUNK_XREF_CODE32BIT |-> "XRefCode32Bit",
     HUNK_GLOBAL_DATAPOINTER |-> "GlobalDataPointer",
     HUNK_GLOBAL_XPOINTER |-> "GlobalXPointer", HUNK_GLOBAL_XVECTOR |-> "GlobalXVector",
     HUNK_XREF_PCREL32BIT |-> "XRefPCRelative32Bit",
     HUNK_CFM_EXPORT |-> "CFMExport", HUNK_CFM_IMPORT |-> "CFMImport",
     HUNK_CFM_IMPORT_CONTAINER |-> "CFMImportContainer", HUNK_SRC_BREAK |-> "SrcBreak",
     HUNK_LOCAL_DATAPOINTER |-> "LocalDataPointer",
     HUNK_LOCAL_XPOINTER |-> "LocalXPointer", HUNK_LOCAL_XVECTOR |-> "LocalXVector",
     HUNK_EXCEPTION_INFO |-> "ExceptionInfo", HUNK_METHOD_REF |-> "MethodReference",
     HUNK_METHOD_CLASS_DEF |-> "MethodClassDefinition",
     HUNK_XREF_AMBIGUOUS16BIT |-> "XRefAmbiguous16Bit",
     HUNK_WEAK_IMPORT_CONTAINER |-> "WeakImportContainer"]

InitializedDataKinds ==
    {"LocalInitializedData", "GlobalInitializedData",
     "LocalFarInitializedData", "GlobalFarInitializedData"}

UninitializedDataKinds ==
    {"LocalUninitializedData", "GlobalUninitializedData",
     "LocalFarUninitializedData", "GlobalFarUninitializedData"}

XRefKinds ==
    {"XRefCodeJT16Bit", "XRefData16Bit", "XRef32Bit", "XRefCode16Bit", "XRefCode32Bit",
     "XRefPCRelative32Bit", "XRefAmbiguous16Bit"}

\* The payload length the kind of hunk h dictates, in bytes after the tag.
PayloadLength(h) ==
    CASE h.kind \in {"Start", "End", "GlobalMultiDef", "GlobalOverload", "CFMExport"} -> 0
      [] h.kind \in CodeKinds \cup InitializedDataKinds -> 16 + Len(h.code)
      [] h.kind \in UninitializedDataKinds -> 16
      [] h.kind \in {"InitCode", "ExceptionInfo"} -> 4 + Len(h.code)
      [] h.kind \in XRefKinds -> 6 + 8 * h.aux[1]
      [] h.kind = "MethodClassDefinition" -> 8 + 8 * h.aux[2]
      [] h.kind \in {"CFMImportContainer", "WeakImportContainer"} -> 16
      [] h.kind \in {"CFMImport", "Segment"} -> 4
      [] OTHER -> 8

\* The bytes the records of these hunks take in the stream.
RECURSIVE RecordsLength(_)
RecordsLength(hunks) ==
    IF hunks = <<>> THEN 0
    ELSE 2 + PayloadLength(Head(hunks)) + RecordsLength(Tail(hunks))

\* C33: the emitted hunks are the records of the stream one for one and in
\* order, each record moves the cursor by 2 tag bytes and the payload
\* length of its kind, and on a successful decode the bytes consumed are
\* the whole slice.
C33_HunksAreTheRecordsAndFillTheSlice ==
    hunkp.state \in {"ParseTag", "End"} /\ hunkp.outcome \in {"running", "ok"} =>
        /\ Len(hunkp.value) - Len(hunkp.data) = RecordsLength(hunkp.hunks)
        /\ \A i \in 1..Len(hunkp.hunks) :
              LET at  == RecordsLength(SubSeq(hunkp.hunks, 1, i - 1))
                  tag == HunkParseState_try_from(convert_be_u16(Slice(hunkp.value, at, at + 2)))
              IN  /\ tag.ok
                  /\ tag.raw \in DOMAIN KindOfRaw
                  /\ hunkp.hunks[i].kind = KindOfRaw[tag.raw]
        /\ hunkp.outcome = "ok" => RecordsLength(hunkp.hunks) = Len(hunkp.value)

\* A decoded stream of a code hunk with code bytes, an initialized-data
\* hunk with data bytes and an uninitialized-data hunk.
C33_Witness_CodeAndDataRecordsDecoded ==
    /\ hunkp.outcome = "ok"
    /\ Len(hunkp.hunks) = 3
    /\ hunkp.hunks[1].kind = "Start"
    /\ hunkp.hunks[2].kind = "GlobalCode"
    /\ Len(hunkp.hunks[2].code) = MaxPayload
    /\ hunkp.hunks[3].kind = "GlobalInitializedData"
    /\ Len(hunkp.hunks[3].code) = MaxPayload
    /\ Len(hunkp.value) = 2 + (18 + MaxPayload) + (18 + MaxPayload)

\* The symtable_offset and symtable_size fields of the object buffer.
SymTableOffsetOf(value) == convert_be_u32(Slice(value, 20, 24))

SymTableSizeIsZero(value) == WordIs(Slice(value, 24, 28), <<0, 0, 0, 0>>)

DefaultSymbolTable == [routines |-> <<>>, types |-> <<>>]

\* C34: an object whose header has symtable_offset = 0 passes the
\* symbol-table step without an error or a panic whatever symtable_size
\* is, the symbol-table decoder is not run on any of its bytes, and the
\* object decoded has the default symbol table: no routines, no types.
C34_OffsetZeroGivesDefaultSymbolTable ==
    Len(objp.value) >= 28 /\ SymTableOffsetOf(objp.value) = 0 =>
        /\ objp.symbol_table = DefaultSymbolTable
        /\ objp.state = "ProcessSymbolTable" => objp.outcome = "running"
        /\ objp.state = "ObjectHeaderReserved1" /\ objp.outcome = "running" =>
              objp.header.symtable_offset = 0

\* An object with symtable_offset 0, a symtable_size that is not 0 and the
\* bytes of a routine at the place a symbol table would be, decoded.
C34_Witness_OffsetZeroWithSizeDecoded ==
    /\ objp.outcome = "ok"
    /\ SymTableOffsetOf(objp.value) = 0
    /\ ~SymTableSizeIsZero(objp.value)
    /\ objp.header.symtable_size > Len(objp.value)
    /\ objp.symbol_table = DefaultSymbolTable

\* The stream starts with a whole LocalCode or GlobalCode record: its tag,
\* its 16-byte header and the code bytes the header counts.
StartsWithCodeRecord(value) ==
    /\ Len(value) >= 18
    /\ FirstTag(value) \in {RawTag("HUNK_LOCAL_CODE"), RawTag("HUNK_GLOBAL_CODE")}
    /\ WordIs(Slice(value, 6, 8), <<0, 0>>)
    /\ Len(value) >= 18 + convert_be_u32(Slice(value, 6, 10))

\* C35: a LocalCode or GlobalCode record that is the first record of the
\* stream decodes, and the hunk it gives has the special flag None.
C35_FirstCodeRecordDecodesWithFlagNone ==
    hunkp.state # "Idle" /\ StartsWithCodeRecord(hunkp.value) =>
        /\ hunkp.state = "ParseObjCodeHunk" /\ hunkp.hunks = <<>> => hunkp.outcome = "running"
        /\ hunkp.hunks # <<>> =>
              /\ hunkp.hunks[1].kind \in CodeKinds
              /\ hunkp.hunks[1].flag = "None"

DataTags == InitializedDataTags \cup UninitializedDataTags

\* The trailing bytes of the data record of raw type tag that starts at
\* offset at of value: its size field for the initialized kinds, 0 for the
\* uninitialized ones.
DataTrailingBytes(value, at, tag) ==
    IF tag \in InitializedDataTags THEN convert_be_u32(Slice(value, at + 6, at + 10)) ELSE 0

\* C36: for each of the eight data kinds the decoder reads the 16-byte
\* header and then exactly `size` trailing bytes when the kind is
\* initialized and none when it is uninitialized: the cursor stands right
\* after the header of an uninitialized-data hunk, whatever its size field.
C36_DataHunkReadsSizeBytesOnlyWhenInitialized ==
    hunkp.state \in {"ParseDataHunk", "CommitHunk"} /\ hunkp.tag \in DataTags =>
        LET at == RecordsLength(hunkp.hunks)
        IN  Len(hunkp.value) >= at + 18 =>
            LET n == DataTrailingBytes(hunkp.value, at, hunkp.tag)
            IN  Len(hunkp.value) >= at + 18 + n =>
                /\ hunkp.outcome = "running"
                /\ hunkp.state = "CommitHunk" =>
                      /\ Len(hunkp.value) - Len(hunkp.data) = at + 18 + n
                      /\ hunkp.cur.code = Slice(hunkp.value, at + 18, at + 18 + n)
                      /\ hunkp.cur.kind = KindOfRaw[hunkp.tag]
                      /\ hunkp.cur.kind \in InitializedDataKinds \cup UninitializedDataKinds

\* An initialized-data hunk with trailing bytes, then an uninitialized-data
\* hunk whose size field is not 0, then the End record right after its
\* header.
C36_Witness_EndRecordRightAfterUninitializedHeader ==
    /\ hunkp.outcome = "ok"
    /\ Len(hunkp.hunks) = 3
    /\ hunkp.hunks[1].kind = "GlobalInitializedData"
    /\ Len(hunkp.hunks[1].code) = MaxPayload
    /\ hunkp.hunks[2].kind = "LocalUninitializedData"
    /\ convert_be_u32(Slice(hunkp.value, 18 + MaxPayload + 6, 18 + MaxPayload + 10)) = MaxPayload
    /\ hunkp.hunks[3].kind = "End"
    /\ Len(hunkp.value) = (18 + MaxPayload) + 18 + 2

\* The payload size of each of the nine variants, n being its member count.
VariantPayloadSize(kind, n) ==
    CASE kind = "TypePointer" -> 6
      [] kind = "TypeArray" -> 12
      [] kind = "TypeStruct" -> 10 + 12 * n
      [] kind = "TypeEnum" -> 8 + 8 * n
      [] kind = "TypePascalArray" -> 20
      [] kind = "TypePascalRange" -> 20
      [] kind = "TypePascalSet" -> 12
      [] kind = "TypePascalEnum" -> 8 + 4 * n
      [] kind = "TypePascalString" -> 8

\* The member count in the payload at the cursor, for the variants that
\* have one.
MemberCountAt(kind, data) ==
    CASE kind = "TypeStruct" -> convert_be_u16(Slice(data, 8, 10))
      [] kind = "TypeEnum" -> convert_be_u16(Slice(data, 6, 8))
      [] kind = "TypePascalEnum" -> convert_be_u16(Slice(data, 4, 6))
      [] OTHER -> 0

TypeStepTaken == typep.outcome = "running" /\ typep'.outcome # "panic" /\ typep' # typep

\* C37: every record of the type table is self-delimiting: reading the tag
\* and id moves the cursor by 6, building the variant does not move it, and
\* committing it moves the cursor by the payload size of the variant, so
\* the next tag is read at the first byte after the record.
C37_TypeRecordsAreSelfDelimiting ==
    [][TypeStepTaken =>
          CASE typep.state = "ParseTag" -> typep'.data = DropBytes(typep.data, 6)
            [] typep.state = "CommitType" ->
                  /\ typep.cur.members = MemberCountAt(typep.cur.kind, typep.data)
                  /\ Len(typep.data) >= VariantPayloadSize(typep.cur.kind, typep.cur.members)
                  /\ typep'.data = DropBytes(typep.data,
                                             VariantPayloadSize(typep.cur.kind, typep.cur.members))
                  /\ typep'.state \in {"ParseTag", "End"}
            [] OTHER -> typep'.data = typep.data]_vars

\* A table of a struct with a member and an enum with a member, decoded to
\* its last byte.
C37_Witness_StructThenEnumDecoded ==
    /\ typep.outcome = "ok"
    /\ Len(typep.types) = 2
    /\ typep.types[1].typ.kind = "TypeStruct"
    /\ typep.types[1].typ.members >= 1
    /\ typep.types[2].typ.kind = "TypeEnum"
    /\ typep.types[2].typ.members >= 1
    /\ typep.data = <<>>

\* C38: committing a hunk only appends to the hunk list: no step of the
\* decoder changes a hunk already committed, the special flag of an
\* earlier code hunk included, and only the commit step adds a hunk, one,
\* at the end.
C38_CommittedHunksAreNeverChanged ==
    [][hunkp.outcome = "running" =>
          \/ hunkp'.hunks = hunkp.hunks
          \/ /\ hunkp.state = "CommitHunk"
             /\ hunkp'.hunks = Append(hunkp.hunks, hunkp.cur)]_vars

\* A code hunk flagged CFMExport by the marker before it, with a
\* GlobalOverload marker decoded after it.
C38_Witness_MarkerAfterFlaggedCodeHunk ==
    /\ hunkp.outcome = "ok"
    /\ Len(hunkp.hunks) = 3
    /\ hunkp.hunks[1].kind = "CFMExport"
    /\ hunkp.hunks[2].kind = "GlobalCode"
    /\ hunkp.hunks[2].flag = "CFMExport"
    /\ hunkp.hunks[3].kind = "GlobalOverload"

\* C39: the library decoder reaches its End state or an error outcome after
\* finitely many passes on every buffer and every count in the header, and
\* each pass through the file loop strictly decreases the counter of
\* remaining files, which stops the loop at zero and never wraps below
\* zero.
C39_LibraryDecoderEndsAndCounterNeverWraps ==
    /\ <>(libp.outcome \in {"ok", "err"})
    /\ [][libp.state = "FileCommit" /\ libp.outcome = "running" =>
              /\ libp'.outcome # "panic"
              /\ libp'.remaining_files < libp.remaining_files]_vars

\* C40: the 20-byte file descriptors are read one right after another: the
\* descriptor of member i (from 0) is read at offset 28 + 20 * i of the
\* library, whatever the sizes of the members decoded before it.
C40_DescriptorsAreReadContiguously ==
    libp.state \in {"FileStart", "FileHeaderModDate"} /\ libp.outcome = "running" =>
        libp.offset = 28 + 20 * Len(libp.files)
====
